---- MODULE Spec2Model ----
(***************************************************************************)
(* Per-table hand engine of dodopsantos/poker: hand start (runtime.ts),    *)
(* betting engine and auto-runout (poker/actions.ts), showdown             *)
(* (showdown.ts) and the gateway's turn timer, away policy and board       *)
(* reveal pacing (realtime/table.gateway.ts).  One table is modelled.      *)
(***************************************************************************)
EXTENDS Integers, Sequences, FiniteSets, TLC

(* ------------------------------ bounds --------------------------------- *)
MaxHands == 1          \* hands started per behaviour
MaxTimeouts == 1       \* turn-timer expiries per behaviour
MaxSitRequests == 1    \* sit_out / sit_in requests per behaviour
MaxJoins == 2          \* table:join requests per behaviour
MaxMillis == 1         \* milliseconds that pass between two events, per behaviour

(* --------------------------- program constants ------------------------- *)
TURN_TIME_MS == 15000
AWAY_TIMEOUTS_IN_ROW == 2
RUNOUT_GUARD == 10
DECK_SIZE == 52

(* ------------------------------ inputs --------------------------------- *)
SmallBlind == 2
BigBlind == 4
\* stacks of seats 1..3 before the first hand (0: the seat is empty)
InitStacks == {<<9, 5, 0>>, <<5, 5, 0>>, <<9, 1, 0>>, <<1, 9, 0>>, <<9, 5, 3>>}
RaiseAmounts == {1, 8, 12}              \* amount of a RAISE request
HandValues == {1, 2}                   \* evaluator results at showdown
PlayerActions == {"FOLD", "CHECK", "CALL", "RAISE"}

Seats == 1..3         \* user u owns seat u when seated
Users == 1..3
Null == -1

\* Timestamps (turnEndsAt, the timer's deadline) are kept relative to the current
\* instant: Date.now() reads Now, and when time passes every stored timestamp
\* moves back by the time elapsed.  The code only compares timestamps with each
\* other and with Date.now(), so this is a change of origin.
Now == 0

VARIABLES
  hasRt,            \* the key table:{id}:runtime exists in the KV
  rt,               \* its value (TableRuntime)
  dbSeats,          \* relational seats: seatNo -> [userId, stack, state]
  dealerPtr,        \* KV dealer pointer (Null when absent)
  wallet,           \* chips cashed out to each user's wallet
  timeoutStrikes,   \* gateway map: user -> consecutive timeouts
  pendingAwayKick,  \* gateway set of users to cash out at a safe point
  turnTimer,        \* gateway in-memory timer (the entry of turnTimers): [armed, endsAt],
                    \* with the hand and the seat it was armed for
  sched,            \* the gateway's work in flight: scheduleTurnTimer calls of
                    \* table:join between their clearTurnTimer and their setTimeout
                    \* (calls; n: calls so far), the timers still pending that
                    \* turnTimers no longer holds (orphans), a timer callback between
                    \* its KV read and its applyTableAction (cb), a table:action
                    \* between its strike reset and its KV read (act), the
                    \* table:action handlers that have still to run their async
                    \* tail (tails), the revealPendingBoard calls between their
                    \* lock test and their KV read (entering), a second reveal
                    \* sequence in progress (seq)
  starting,         \* the KV key hand_lock (lock) and the position of each
                    \* startHandIfReady invocation that runs step by step (pc); the
                    \* users the caller of startHandIfReady has still to send
                    \* table:private_cards to (owed)
  revealing,        \* the table is in revealingTables
  tail,             \* the reveal sequence in progress: [pc, i, n, g]
  sitReq,           \* the sit_out / sit_in request between its read and its write
                    \* (n: requests so far)
  restarts,         \* number of process restarts so far
  handsStarted,     \* number of hands started so far
  timeouts,         \* number of turn-timer expiries so far
  last              \* outcome of the last handler step (return value / event)

vars == <<hasRt, rt, dbSeats, dealerPtr, wallet, timeoutStrikes, pendingAwayKick,
          turnTimer, sched, starting, revealing, tail, sitReq, restarts,
          handsStarted, timeouts, last>>

(* ------------------------------ helpers -------------------------------- *)
Max(a, b) == IF a >= b THEN a ELSE b
Min(a, b) == IF a <= b THEN a ELSE b

RECURSIVE SumOver(_, _)
SumOver(f, S) ==
  IF S = {} THEN 0
  ELSE LET x == CHOOSE y \in S : TRUE IN f[x] + SumOver(f, S \ {x})

MinOf(S) == CHOOSE x \in S : \A y \in S : x <= y
MaxOf(S) == CHOOSE x \in S : \A y \in S : x >= y

NoRt == [handId |-> 0, round |-> "NONE", dealerSeat |-> 0, currentTurnSeat |-> 0,
         turnEndsAt |-> Null, deck |-> [lo |-> 1, hi |-> 0], board |-> <<>>, pendingBoard |-> <<>>,
         isDealingBoard |-> FALSE, autoRunout |-> FALSE, pot |-> 0, currentBet |-> 0,
         minRaise |-> 0, lastAggressorSeat |-> Null, actedThisRound |-> <<>>,
         players |-> <<>>]

SeatsOf(r) == DOMAIN r.players

(* ------------------------- cards.ts --------------------------------------
   Cards are named by their position in the shuffled deck (card i is the i-th
   card of shuffle(buildDeck())), so a deck is the interval lo..hi of the
   cards not drawn yet and draw() takes its first n.                        *)
DeckLen(d) == IF d.hi >= d.lo THEN d.hi - d.lo + 1 ELSE 0

draw(d, n) ==
  IF n <= 0 THEN [drawn |-> <<>>, rest |-> d]
  ELSE LET k == Min(n, DeckLen(d))
       IN [drawn |-> [i \in 1..k |-> d.lo + i - 1], rest |-> [lo |-> d.lo + k, hi |-> d.hi]]

(* ------------------------- runtime.ts ---------------------------------- *)
roundNext(round) ==
  IF round = "PREFLOP" THEN "FLOP"
  ELSE IF round = "FLOP" THEN "TURN"
  ELSE IF round = "TURN" THEN "RIVER"
  ELSE "SHOWDOWN"

\* the search without the wrap to the lowest seat
nextOccupiedNoWrap(seatNos, fromSeat) ==
  IF \E s \in seatNos : s > fromSeat
  THEN MinOf({s \in seatNos : s > fromSeat})
  ELSE fromSeat

\* next seat of seatNos strictly above fromSeat, else the lowest one
nextOccupied(seatNos, fromSeat) ==
  IF \E s \in seatNos : s > fromSeat
  THEN MinOf({s \in seatNos : s > fromSeat})
  ELSE MinOf(seatNos)

(* ------------------------- actions.ts helpers -------------------------- *)
contenders(r) == {s \in SeatsOf(r) : ~r.players[s].hasFolded}

actionables(r) == {s \in contenders(r) : ~r.players[s].isAllIn /\ r.players[s].stack > 0}

nextSeatFrom(list, fromSeat) ==
  IF list = {} THEN fromSeat
  ELSE IF \E s \in list : s > fromSeat THEN MinOf({s \in list : s > fromSeat})
  ELSE MinOf(list)

nextActionableSeat(r, fromSeat) == nextSeatFrom(actionables(r), fromSeat)

onlyOneLeft(r) ==
  IF Cardinality(contenders(r)) = 1 THEN CHOOSE s \in contenders(r) : TRUE ELSE Null

\* the settle test without the per-seat acted flags ("the old logic" of the source
\* comment): a first CHECK settles a street with currentBet = 0
isRoundSettledBetsOnly(r) ==
  IF Cardinality(contenders(r)) <= 1 THEN TRUE
  ELSE IF actionables(r) = {} THEN TRUE
  ELSE \A s \in contenders(r) : r.players[s].isAllIn \/ r.players[s].stack = 0
                                \/ r.players[s].bet = r.currentBet

isRoundSettled(r) ==
  LET act == contenders(r)
      allActed == \A s \in act : r.players[s].isAllIn \/ r.players[s].stack = 0
                                 \/ r.actedThisRound[s] = TRUE
      allMatched == \A s \in act : r.players[s].isAllIn \/ r.players[s].stack = 0
                                   \/ r.players[s].bet = r.currentBet
  IN IF Cardinality(act) <= 1 THEN TRUE
     ELSE IF actionables(r) = {} THEN TRUE
     ELSE IF r.currentBet = 0 THEN allActed
     ELSE allMatched /\ allActed

\* the auto-runout test without its settled-round condition
shouldAutoRunoutUnsettled(r) ==
  IF Cardinality(contenders(r)) < 2 THEN FALSE
  ELSE IF ~(\E s \in contenders(r) : r.players[s].isAllIn \/ r.players[s].stack = 0) THEN FALSE
  ELSE Cardinality(actionables(r)) <= 1

shouldAutoRunout(r) ==
  IF ~isRoundSettled(r) THEN FALSE
  ELSE IF Cardinality(contenders(r)) < 2 THEN FALSE
  ELSE IF ~(\E s \in contenders(r) : r.players[s].isAllIn \/ r.players[s].stack = 0) THEN FALSE
  ELSE Cardinality(actionables(r)) <= 1

\* setTurnDeadline(rt) at wall-clock time t
setTurnDeadline(r, t) ==
  IF r.isDealingBoard \/ r.autoRunout THEN [r EXCEPT !.turnEndsAt = Null]
  ELSE IF actionables(r) = {} THEN [r EXCEPT !.turnEndsAt = Null]
  ELSE LET r1 == IF r.currentTurnSeat \in actionables(r) THEN r
                 ELSE [r EXCEPT !.currentTurnSeat = nextActionableSeat(r, r.currentTurnSeat)]
       IN [r1 EXCEPT !.turnEndsAt = t + TURN_TIME_MS]

resetBets(r) ==
  [r EXCEPT !.players = [s \in SeatsOf(r) |-> [r.players[s] EXCEPT !.bet = 0]],
            !.currentBet = 0,
            !.lastAggressorSeat = Null,
            !.actedThisRound = [s \in DOMAIN r.actedThisRound |-> FALSE]]

\* persistStacks: every seat of the runtime gets its runtime stack written
persistStacks(db, r) ==
  [s \in DOMAIN db |-> IF s \in SeatsOf(r) THEN [db[s] EXCEPT !.stack = r.players[s].stack]
                       ELSE db[s]]

SumCommitted(r) == SumOver([s \in SeatsOf(r) |-> r.players[s].committed], SeatsOf(r))

(* ------------------------- showdown.ts --------------------------------- *)
\* contribution levels: the distinct positive committed amounts
levels(r) == {r.players[s].committed : s \in {x \in SeatsOf(r) : r.players[x].committed > 0}}

prevLevel(r, lvl) == IF \E l \in levels(r) : l < lvl THEN MaxOf({l \in levels(r) : l < lvl}) ELSE 0

participants(r, lvl) == {s \in SeatsOf(r) : r.players[s].committed >= lvl}

potAmount(r, lvl) == (lvl - prevLevel(r, lvl)) * Cardinality(participants(r, lvl))

\* eligibility without the level: every non-folded seat
eligibleAnyLevel(r, lvl) == {s \in SeatsOf(r) : ~r.players[s].hasFolded}

eligibleSeats(r, lvl) == {s \in participants(r, lvl) : ~r.players[s].hasFolded}

\* the order by seat number, without the dealer
distBySeatNo(r, a) == a

\* clockwise distance from the dealer used by sortByLeftOfDealer
distLeftOfDealer(r, a) == IF a > r.dealerSeat THEN a - r.dealerSeat ELSE a + 100 - r.dealerSeat

potWinners(r, value, lvl) ==
  LET elig == eligibleSeats(r, lvl)
  IN {s \in elig : \A o \in elig : value[s] >= value[o]}

\* what the pot of level lvl pays to seat s
potShare(r, value, lvl, s) ==
  LET w == potWinners(r, value, lvl)
      amount == potAmount(r, lvl)
  IN IF s \notin w \/ amount <= 0 THEN 0
     ELSE LET base == amount \div Cardinality(w)
              rem == amount - base * Cardinality(w)
              rank == Cardinality({o \in w : distLeftOfDealer(r, o) < distLeftOfDealer(r, s)})
          IN base + (IF rank < rem THEN 1 ELSE 0)

\* resolveShowdown: seat -> payout summed over the pots (0: not a winner)
resolveShowdown(r, value) ==
  [s \in SeatsOf(r) |->
     SumOver([lvl \in levels(r) |-> potShare(r, value, lvl, s)], levels(r))]

payWinners(r, payouts) ==
  [r EXCEPT !.players = [s \in SeatsOf(r) |->
       [r.players[s] EXCEPT !.stack = r.players[s].stack + payouts[s]]]]

(* ------------------------- actions.ts: applyTableAction ---------------- *)
seatOfUser(r, user) ==
  IF \E s \in SeatsOf(r) : r.players[s].userId = user
  THEN CHOOSE s \in SeatsOf(r) : r.players[s].userId = user
  ELSE Null

Result(code, has, r, db) ==
  [err |-> code, hasRt |-> has, rt |-> r, db |-> db, ended |-> "no", winnerSeat |-> Null,
   paid |-> 0, owed |-> 0, pre |-> NoRt, advanced |-> FALSE]

\* timeoutsInRow bookkeeping (the block is present three times in the source)
bumpTimeouts(p, timeout) ==
  LET once(q) == IF timeout THEN [q EXCEPT !.timeoutsInRow = q.timeoutsInRow + 1]
                 ELSE [q EXCEPT !.timeoutsInRow = 0]
  IN once(once(once(p)))

markActed(r, s) == [r EXCEPT !.actedThisRound[s] = TRUE]

\* the RAISE branch after validation: need chips move, raise sizing, re-opening
applyRaise(r, s, raiseTo, need, minTo) ==
  LET p == r.players[s]
      p1 == [p EXCEPT !.stack = p.stack - need, !.bet = raiseTo,
                      !.committed = p.committed + need,
                      !.isAllIn = IF p.stack - need = 0 THEN TRUE ELSE p.isAllIn]
      r1 == [r EXCEPT !.players[s] = p1, !.pot = r.pot + need,
                      !.minRaise = IF raiseTo >= minTo THEN raiseTo - r.currentBet ELSE r.minRaise,
                      !.currentBet = raiseTo,
                      !.lastAggressorSeat = s,
                      !.actedThisRound = [k \in DOMAIN r.actedThisRound |-> FALSE]]
  IN markActed(r1, s)

\* the action itself; [err, rt]
applyMove(r, s, action, amount) ==
  LET p == r.players[s]
      toCall == Max(0, r.currentBet - p.bet)
  IN CASE action = "FOLD" ->
            [err |-> "OK", rt |-> markActed([r EXCEPT !.players[s].hasFolded = TRUE], s)]
       [] action = "CHECK" ->
            IF toCall # 0 THEN [err |-> "CANNOT_CHECK", rt |-> r]
            ELSE [err |-> "OK", rt |-> markActed(r, s)]
       [] action = "CALL" ->
            LET pay == Min(toCall, p.stack)
                p1 == [p EXCEPT !.stack = p.stack - pay, !.bet = p.bet + pay,
                                !.committed = p.committed + pay,
                                !.isAllIn = IF p.stack - pay = 0 THEN TRUE ELSE p.isAllIn]
            IN [err |-> "OK",
                rt |-> markActed([r EXCEPT !.players[s] = p1, !.pot = r.pot + pay], s)]
       [] action = "RAISE" ->
            LET minTo == IF r.currentBet = 0 THEN r.minRaise ELSE r.currentBet + r.minRaise
                requestedNeed == amount - p.bet
                clamp == requestedNeed > p.stack
                raiseTo == IF clamp THEN p.bet + p.stack ELSE amount
                need == IF clamp THEN p.stack ELSE requestedNeed
                isAllInRaise == need = p.stack
            IN IF amount <= r.currentBet THEN [err |-> "INVALID_RAISE", rt |-> r]
               ELSE IF requestedNeed <= 0 THEN [err |-> "INVALID_RAISE", rt |-> r]
               ELSE IF clamp /\ raiseTo <= r.currentBet THEN [err |-> "INSUFFICIENT_STACK", rt |-> r]
               ELSE IF raiseTo < minTo /\ ~isAllInRaise THEN [err |-> "RAISE_TOO_SMALL", rt |-> r]
               ELSE [err |-> "OK", rt |-> applyRaise(r, s, raiseTo, need, minTo)]

\* the street's cards go from the deck to pendingBoard and the board is locked
dealPending(r, d) == [r EXCEPT !.deck = d.rest, !.pendingBoard = d.drawn, !.isDealingBoard = TRUE]

drawStreet(r) == dealPending(r, draw(r.deck, IF r.round = "FLOP" THEN 3 ELSE 1))

withAutoRunout(r) == [r EXCEPT !.autoRunout = shouldAutoRunout(r)]

firstToAct(r) == [r EXCEPT !.currentTurnSeat = nextActionableSeat(r, r.dealerSeat)]

\* street transition once the round is settled (not SHOWDOWN): resetBets, draw the
\* street's cards into pendingBoard, autoRunout, first seat after the dealer
advanceStreet(r, t) ==
  setTurnDeadline(
    firstToAct(withAutoRunout(drawStreet(resetBets([r EXCEPT !.round = roundNext(r.round)])))), t)

\* the payouts are added to the stacks, the stacks persisted, the runtime cleared
settleShowdown(r, db, payouts, owed, pre) ==
  [err |-> "OK", hasRt |-> FALSE, rt |-> NoRt, db |-> persistStacks(db, payWinners(r, payouts)),
   ended |-> "showdown", winnerSeat |-> Null,
   paid |-> SumOver(payouts, SeatsOf(r)), owed |-> owed, pre |-> pre, advanced |-> TRUE]

atShowdown(r, db, value, owed, pre) == settleShowdown(r, db, resolveShowdown(r, value), owed, pre)

\* showdown branch: pot.total := sum of committed, resolve, pay, persist, clear
showdownResult(r, db, value, pre) ==
  atShowdown([r EXCEPT !.round = "SHOWDOWN", !.pot = SumCommitted(r)], db, value,
             SumCommitted(r), pre)

\* the hand goes on with runtime r1: setRuntime + persistStacks
goesOn(r1, db, pre, advanced) ==
  [err |-> "OK", hasRt |-> TRUE, rt |-> r1, db |-> persistStacks(db, r1),
   ended |-> "no", winnerSeat |-> Null, paid |-> 0, owed |-> 0, pre |-> pre,
   advanced |-> advanced]

\* the fold win paying the sum of committed instead of pot.total
foldWinCommitted(r, db, w) ==
  [err |-> "OK", hasRt |-> FALSE, rt |-> NoRt,
   db |-> persistStacks(db, [r EXCEPT !.players[w].stack = r.players[w].stack + SumCommitted(r)]),
   ended |-> "fold", winnerSeat |-> w, paid |-> SumCommitted(r), owed |-> SumCommitted(r),
   pre |-> r, advanced |-> FALSE]

\* everyone else folded: seat w takes the pot, the runtime is cleared
foldWin(r, db, w) ==
  [err |-> "OK", hasRt |-> FALSE, rt |-> NoRt,
   db |-> persistStacks(db, [r EXCEPT !.players[w].stack = r.players[w].stack + r.pot]),
   ended |-> "fold", winnerSeat |-> w, paid |-> r.pot, owed |-> SumCommitted(r),
   pre |-> r, advanced |-> FALSE]

\* everything after the move: fold win, street advance or showdown, next turn
afterMove(r, db, t, value) ==
  IF onlyOneLeft(r) # Null THEN foldWin(r, db, onlyOneLeft(r))
  ELSE IF isRoundSettled(r) THEN
    IF roundNext(r.round) = "SHOWDOWN" THEN showdownResult(resetBets(r), db, value, r)
    ELSE goesOn(advanceStreet(r, t), db, r, TRUE)
  ELSE goesOn(setTurnDeadline(
                [r EXCEPT !.currentTurnSeat = nextActionableSeat(r, r.currentTurnSeat)], t),
              db, r, FALSE)

\* the move's outcome m: an error leaves everything as it was
moveOutcome(has, r, db, m, t, value) ==
  IF m.err # "OK" THEN Result(m.err, has, r, db) ELSE afterMove(m.rt, db, t, value)

\* the caller's seat s passed the checks: timeoutsInRow, the move, what follows
actBySeat(has, r, db, s, action, amount, timeout, t, value) ==
  moveOutcome(has, r, db,
              applyMove([r EXCEPT !.players[s] = bumpTimeouts(r.players[s], timeout)],
                        s, action, amount),
              t, value)

\* the seat checks without the turn check
checkSeatAnyTurn(has, r, db, s, action, amount, timeout, t, value) ==
  IF s = Null THEN Result("NOT_SEATED", has, r, db)
  ELSE IF r.players[s].hasFolded THEN Result("ALREADY_FOLDED", has, r, db)
  ELSE actBySeat(has, r, db, s, action, amount, timeout, t, value)

checkSeat(has, r, db, s, action, amount, timeout, t, value) ==
  IF s = Null THEN Result("NOT_SEATED", has, r, db)
  ELSE IF r.players[s].hasFolded THEN Result("ALREADY_FOLDED", has, r, db)
  ELSE IF r.currentTurnSeat # s THEN Result("NOT_YOUR_TURN", has, r, db)
  ELSE actBySeat(has, r, db, s, action, amount, timeout, t, value)

\* applyTableAction on the runtime read from the KV (has, r)
applyTableAction(has, r, db, user, action, amount, timeout, t, value) ==
  IF ~has THEN Result("NO_HAND_RUNNING", has, r, db)
  ELSE IF r.isDealingBoard THEN Result("DEALING_BOARD", has, r, db)
  ELSE checkSeat(has, r, db, seatOfUser(r, user), action, amount, timeout, t, value)

(* ------------------------- actions.ts: advanceAutoRunout --------------- *)
\* the call returned null: nothing was done
nothingDone(has, r, db) == [Result("OK", has, r, db) EXCEPT !.ended = "null"]

\* the runout's street transition: as advanceStreet, autoRunout left as it is
runoutStreet(r, t) ==
  setTurnDeadline(firstToAct(drawStreet(resetBets([r EXCEPT !.round = roundNext(r.round)]))), t)

advanceAutoRunout(has, r, db, t, value) ==
  IF ~has THEN nothingDone(has, r, db)
  ELSE IF ~r.autoRunout THEN nothingDone(has, r, db)
  ELSE IF r.isDealingBoard THEN nothingDone(has, r, db)
  ELSE IF ~shouldAutoRunout(r) THEN
    [Result("OK", TRUE, [r EXCEPT !.autoRunout = FALSE], db) EXCEPT !.pre = r]
  ELSE IF Len(r.board) >= 5 \/ r.round = "SHOWDOWN" THEN showdownResult(r, db, value, r)
  ELSE IF roundNext(r.round) = "SHOWDOWN" THEN
    \* fallback branch: the round was already moved and the bets reset
    [Result("OK", TRUE, [resetBets([r EXCEPT !.round = "SHOWDOWN"]) EXCEPT !.autoRunout = FALSE], db)
       EXCEPT !.pre = r, !.advanced = TRUE]
  ELSE [Result("OK", TRUE, runoutStreet(r, t), db) EXCEPT !.pre = r, !.advanced = TRUE]

(* ------------------------- table.gateway.ts ---------------------------- *)
NoTimer == [armed |-> FALSE, endsAt |-> Null, handId |-> 0, seat |-> 0]
NoCallback == [pending |-> FALSE, user |-> 0, forced |-> "", round |-> "NONE", timeout |-> FALSE]
NoRequest == [pending |-> FALSE, user |-> 0, action |-> ""]
NoTail == [pc |-> "idle", i |-> 0, n |-> 0, g |-> 0]
NoSched == [calls |-> 0, n |-> 0, ms |-> 0, orphans |-> <<>>, cb |-> NoCallback,
            act |-> NoRequest, tails |-> 0, entering |-> 0, seq |-> NoTail]
StartCalls == 1..3     \* startHandIfReady invocations that race
NoStart == [lock |-> FALSE, pc |-> [i \in StartCalls |-> "idle"], owed |-> {}]

\* the gateway's view of the world, threaded through a handler's calls
World == [hasRt |-> hasRt, rt |-> rt, db |-> dbSeats, wallet |-> wallet,
          strikes |-> timeoutStrikes, kicks |-> pendingAwayKick, timer |-> turnTimer,
          revealing |-> revealing, tail |-> tail]

\* scheduleTurnTimer: clear the timer, arm it for the runtime's turnEndsAt
scheduleTurnTimer(w) ==
  IF ~w.hasRt THEN [w EXCEPT !.timer = NoTimer]
  ELSE IF w.rt.isDealingBoard \/ w.rt.autoRunout THEN [w EXCEPT !.timer = NoTimer]
  \* (a deadline is an epoch time, so the source's endsAt <= 0 is never true)
  ELSE IF w.rt.turnEndsAt = Null THEN [w EXCEPT !.timer = NoTimer]
  ELSE [w EXCEPT !.timer = [armed |-> TRUE, endsAt |-> w.rt.turnEndsAt,
                            handId |-> w.rt.handId, seat |-> w.rt.currentTurnSeat]]

\* table.service.ts leaveWithCashout: empty the user's seat, credit the wallet
leaveWithCashout(w, u) ==
  IF \E s \in DOMAIN w.db : w.db[s].userId = u THEN
    LET s == CHOOSE x \in DOMAIN w.db : w.db[x].userId = u
    IN [w EXCEPT !.db[s] = [userId |-> Null, stack |-> 0, state |-> "EMPTY"],
                 !.wallet[u] = w.wallet[u] + w.db[s].stack]
  ELSE w

RECURSIVE flushSet(_, _)
flushSet(w, S) ==
  IF S = {} THEN w
  ELSE LET u == MinOf(S)
           w1 == leaveWithCashout(w, u)
       IN flushSet([w1 EXCEPT !.strikes[u] = 0, !.kicks = w1.kicks \ {u}], S \ {u})

flushPendingKicks(w) == flushSet(w, w.kicks)

\* entry of revealPendingBoard: dropped while the table is revealing or nothing is
\* pending, else the lock is taken and the pre-delay sleep begins
revealEntry(w, g) ==
  IF w.revealing THEN w
  ELSE IF ~w.hasRt \/ w.rt.pendingBoard = <<>> THEN w
  ELSE [w EXCEPT !.revealing = TRUE,
                 !.tail = [pc |-> "card", i |-> 0, n |-> Len(w.rt.pendingBoard), g |-> g]]

hasPendingBoard(w) == w.hasRt /\ w.rt.isDealingBoard /\ w.rt.pendingBoard # <<>>

\* the world after a step of the engine returned res
withResult(w, res) == [w EXCEPT !.hasRt = res.hasRt, !.rt = res.rt, !.db = res.db]

\* one iteration of runAutoRunout's loop once advanceAutoRunout returned a
runoutIteration(w, w1, g, a) ==
  IF a.ended = "null" THEN [w |-> w, res |-> a]
  ELSE IF a.ended = "showdown" THEN [w |-> flushPendingKicks(w1), res |-> a]
  ELSE IF hasPendingBoard(w1) THEN [w |-> revealEntry(w1, g + 1), res |-> a]
  ELSE [w |-> w1, res |-> a]

\* runAutoRunout from iteration g up to its next sleep; res: the step's outcome
runoutFrom(w, g, a) == runoutIteration(w, scheduleTurnTimer(withResult(w, a)), g, a)

runAutoRunout(w, g, t, value) ==
  IF g >= RUNOUT_GUARD THEN [w |-> w, res |-> Result("OK", w.hasRt, w.rt, w.db)]
  ELSE runoutFrom(w, g, advanceAutoRunout(w.hasRt, w.rt, w.db, t, value))

\* the async tail of a handler: reveal the pending board, then auto-runout
handlerTail(w, t, value) ==
  IF hasPendingBoard(w) /\ ~w.revealing
  THEN [w |-> revealEntry(w, 0), res |-> Result("OK", w.hasRt, w.rt, w.db)]
  ELSE runAutoRunout(w, 0, t, value)

(* ------------------------- state machine ------------------------------- *)
NoSitReq == [pending |-> FALSE, n |-> 0, user |-> 0, out |-> FALSE, hasRt |-> FALSE, rt |-> NoRt]

Strip(res) == [err |-> res.err, ended |-> res.ended, winnerSeat |-> res.winnerSeat,
               paid |-> res.paid, owed |-> res.owed, pre |-> res.pre,
               advanced |-> res.advanced]
NoRes == Strip(Result("OK", FALSE, NoRt, <<>>))

Last(op, user, action, amount, timeout, res, auto) ==
  [op |-> op, user |-> user, action |-> action, amount |-> amount, timeout |-> timeout,
   res |-> Strip(res), auto |-> Strip(auto)]

Commit(w) ==
  /\ hasRt' = w.hasRt
  /\ rt' = w.rt
  /\ dbSeats' = w.db
  /\ wallet' = w.wallet
  /\ timeoutStrikes' = w.strikes
  /\ pendingAwayKick' = w.kicks
  /\ turnTimer' = w.timer
  /\ revealing' = w.revealing
  /\ tail' = w.tail

Init ==
  /\ hasRt = FALSE
  /\ rt = NoRt
  /\ \E st \in InitStacks :
       /\ dbSeats = [s \in Seats |->
            IF st[s] > 0 THEN [userId |-> s, stack |-> st[s], state |-> "SITTING"]
            ELSE [userId |-> Null, stack |-> 0, state |-> "EMPTY"]]
  /\ dealerPtr = Null
  /\ wallet = [u \in Users |-> 0]
  /\ timeoutStrikes = [u \in Users |-> 0]
  /\ pendingAwayKick = {}
  /\ turnTimer = NoTimer
  /\ sched = NoSched
  /\ starting = NoStart
  /\ restarts = 0
  /\ revealing = FALSE
  /\ tail = NoTail
  /\ sitReq = NoSitReq
  /\ handsStarted = 0
  /\ timeouts = 0
  /\ last = Last("init", 0, "", 0, FALSE, NoRes, NoRes)

(* runtime.ts startHandIfReady, with the scheduleTurnTimer its callers run after it *)
seatedOf(db) ==
  {s \in DOMAIN db : db[s].userId # Null /\ db[s].state \in {"SITTING", "PLAYING"} /\ db[s].stack > 0}

newHand(db, ptr, hid) ==
  LET seatNos == seatedOf(db)
      dealerSeat == IF ptr # Null THEN nextOccupied(seatNos, ptr) ELSE MinOf(seatNos)
      isHeadsUp == Cardinality(seatNos) = 2
      sbSeat == IF isHeadsUp THEN dealerSeat ELSE nextOccupied(seatNos, dealerSeat)
      bbSeat == IF isHeadsUp THEN nextOccupied(seatNos, dealerSeat) ELSE nextOccupied(seatNos, sbSeat)
      sb == Min(SmallBlind, db[sbSeat].stack)
      bb == Min(BigBlind, db[bbSeat].stack)
      blind(s) == IF s = sbSeat THEN sb ELSE IF s = bbSeat THEN bb ELSE 0
      players == [s \in seatNos |->
         [seatNo |-> s, userId |-> db[s].userId,
          stack |-> db[s].stack - blind(s),
          bet |-> blind(s),
          committed |-> blind(s) + blind(s),
          isAllIn |-> (s \in {sbSeat, bbSeat} /\ db[s].stack - blind(s) = 0),
          hasFolded |-> FALSE, timeoutsInRow |-> 0, isSittingOut |-> FALSE]]
  IN [handId |-> hid, round |-> "PREFLOP", dealerSeat |-> dealerSeat,
      currentTurnSeat |-> IF isHeadsUp THEN sbSeat ELSE nextOccupied(seatNos, bbSeat),
      turnEndsAt |-> Null,
      deck |-> [lo |-> 2 * Cardinality(seatNos) + 1, hi |-> DECK_SIZE],
      board |-> <<>>, pendingBoard |-> <<>>, isDealingBoard |-> FALSE, autoRunout |-> FALSE,
      pot |-> sb + bb, currentBet |-> bb, minRaise |-> BigBlind, lastAggressorSeat |-> bbSeat,
      actedThisRound |-> [s \in seatNos |-> FALSE],
      players |-> players]

StartHand ==
  /\ ~hasRt
  /\ handsStarted < MaxHands
  /\ Cardinality(seatedOf(dbSeats)) >= 2
  /\ LET r == newHand(dbSeats, dealerPtr, handsStarted + 1)
         db1 == [s \in DOMAIN dbSeats |-> IF s \in SeatsOf(r)
                                   THEN [dbSeats[s] EXCEPT !.stack = r.players[s].stack,
                                                           !.state = "PLAYING"]
                                   ELSE dbSeats[s]]
         w == scheduleTurnTimer([World EXCEPT !.hasRt = TRUE, !.rt = r, !.db = db1])
     IN /\ Commit(w)
        /\ dealerPtr' = r.dealerSeat
        /\ handsStarted' = handsStarted + 1
        /\ last' = Last("start", 0, "", 0, FALSE, NoRes, NoRes)
  /\ UNCHANGED <<restarts, starting, sched, sitReq, timeouts>>

Values == [DOMAIN dbSeats -> HandValues]
DefaultValue == [s \in DOMAIN dbSeats |-> 1]

\* a showdown can only be reached from the river or during an auto-runout; the
\* evaluator's results matter for those steps only
ValuesAt == IF hasRt /\ (rt.round \in {"RIVER", "SHOWDOWN"} \/ rt.autoRunout)
            THEN Values ELSE {DefaultValue}

(* table:action handler *)
\* the handler's async tail returned t; a hand ended by the action flushes the kicks
finishAction(t, res) ==
  [w |-> IF res.ended # "no" THEN flushPendingKicks(t.w) ELSE t.w, res |-> res, auto |-> t.res]

afterAction(w1, res, roundAdvanced, value) ==
  finishAction(handlerTail(IF roundAdvanced THEN flushPendingKicks(w1) ELSE w1, Now, value), res)

\* w0: the world once the caller's strikes are reset; res: what applyTableAction did
actionOutcome(w0, beforeRound, res, value) ==
  IF res.err # "OK" THEN [w |-> w0, res |-> res, auto |-> NoRes]
  ELSE afterAction(scheduleTurnTimer(withResult(w0, res)), res,
                   res.ended = "no" /\ res.rt.round # beforeRound, value)

actionStep(u, a, amt, value) ==
  actionOutcome([World EXCEPT !.strikes[u] = 0], rt.round,
                applyTableAction(hasRt, rt, dbSeats, u, a, amt, FALSE, Now, value), value)

\* the request passes the checks made before the action is looked at
passesPreconditions(u) ==
  /\ hasRt
  /\ ~rt.isDealingBoard
  /\ seatOfUser(rt, u) # Null
  /\ ~rt.players[seatOfUser(rt, u)].hasFolded
  /\ rt.currentTurnSeat = seatOfUser(rt, u)

ActionDone(x, u, a, amt) ==
  /\ Commit(x.w)
  /\ last' = IF x.res.err = "OK" THEN Last("action", u, a, amt, FALSE, x.res, x.auto)
             ELSE Last("action", u, "", 0, FALSE, x.res, x.auto)

TableAction(u, a, amt) ==
  /\ (a # "RAISE" => amt = 0)
  /\ (a = "RAISE" => amt \in RaiseAmounts)
  \* a request refused before its action is looked at has the same effect whatever
  \* the action: one request (FOLD) stands for them
  /\ (~passesPreconditions(u) => a = "FOLD")
  /\ \E value \in ValuesAt : ActionDone(actionStep(u, a, amt, value), u, a, amt)
  /\ UNCHANGED <<restarts, starting, dealerPtr, sched, sitReq, handsStarted, timeouts>>

(* turn timer callback armed by scheduleTurnTimer *)
\* w0: the world as the callback finds it; endsAt: the deadline it was armed with
timerIdle(w0) ==
  [w |-> w0, res |-> nothingDone(w0.hasRt, w0.rt, w0.db),
   auto |-> NoRes, action |-> "", user |-> 0, timeout |-> FALSE]

\* what the callback does after a successful forced action
timerTail(w3, res, value) ==
  IF res.ended = "fold"
  THEN [w |-> [flushPendingKicks(w3) EXCEPT !.timer = NoTimer], res |-> NoRes]
  ELSE IF hasPendingBoard(w3)
  THEN (IF w3.revealing THEN runAutoRunout(w3, 0, Now, value)
        ELSE [w |-> revealEntry(w3, 0), res |-> NoRes])
  ELSE [w |-> scheduleTurnTimer(w3), res |-> NoRes]

timerDone(t, res, forced, user, timeout) ==
  [w |-> t.w, res |-> res, auto |-> t.res, action |-> forced, user |-> user, timeout |-> timeout]

\* timerFlush removing the marked users after every forced action
timerFlushAlways(w2, roundAdvanced) == flushPendingKicks(w2)

timerFlush(w2, roundAdvanced) == IF roundAdvanced THEN flushPendingKicks(w2) ELSE w2

\* w1: the world once the strike is counted; res: what applyTableAction did
timerOutcome(w1, beforeRound, res, forced, user, timeout, value) ==
  IF res.err # "OK"
  THEN [w |-> w1, res |-> res, auto |-> NoRes, action |-> forced, user |-> user,
        timeout |-> timeout]
  ELSE timerDone(timerTail(timerFlush(withResult(w1, res),
                                      res.ended = "no" /\ res.rt.round # beforeRound),
                           res, value),
                 res, forced, user, timeout)

\* a timeout of a seat that is not sitting out is a strike; at the threshold the
\* user is marked for removal
countStrike(w0, user, out) ==
  IF out THEN w0
  ELSE [w0 EXCEPT !.strikes[user] = w0.strikes[user] + 1,
                  !.kicks = IF w0.strikes[user] + 1 >= AWAY_TIMEOUTS_IN_ROW
                            THEN w0.kicks \cup {user} ELSE w0.kicks]

timerForce(w0, seat, forced, value) ==
  timerOutcome(countStrike(w0, seat.userId, seat.isSittingOut),
               w0.rt.round,
               applyTableAction(w0.hasRt, w0.rt, w0.db, seat.userId, forced, 0, ~seat.isSittingOut,
                                Now, value),
               forced, seat.userId, ~seat.isSittingOut, value)

timerStep(w0, endsAt, value) ==
  IF ~w0.hasRt THEN timerIdle(w0)
  ELSE IF w0.rt.isDealingBoard \/ w0.rt.autoRunout THEN timerIdle(w0)
  ELSE IF w0.rt.turnEndsAt = Null \/ w0.rt.turnEndsAt # endsAt THEN timerIdle(w0)
  ELSE IF w0.rt.currentTurnSeat \notin SeatsOf(w0.rt) THEN timerIdle(w0)
  ELSE IF w0.rt.players[w0.rt.currentTurnSeat].hasFolded THEN timerIdle(w0)
  ELSE timerForce(w0, w0.rt.players[w0.rt.currentTurnSeat],
                  IF Max(0, w0.rt.currentBet - w0.rt.players[w0.rt.currentTurnSeat].bet) = 0
                  THEN "CHECK" ELSE "FOLD",
                  value)

TimerDone(x) ==
  /\ Commit(x.w)
  /\ last' = Last("timer", x.user, x.action, 0, x.timeout, x.res, x.auto)

TimerFire ==
  /\ turnTimer.armed
  /\ Now >= turnTimer.endsAt
  /\ \E value \in ValuesAt :
       TimerDone(timerStep([World EXCEPT !.timer = NoTimer], turnTimer.endsAt, value))
  /\ UNCHANGED <<restarts, starting, dealerPtr, sched, sitReq, handsStarted, timeouts>>

\* time d passes: every stored timestamp moves back by d
elapse(r, d) == IF r.turnEndsAt # Null THEN [r EXCEPT !.turnEndsAt = r.turnEndsAt - d] ELSE r

\* the deadlines of the timers that are pending
pendingDeadlines ==
  (IF turnTimer.armed THEN {turnTimer.endsAt} ELSE {})
    \cup {sched.orphans[i].endsAt : i \in DOMAIN sched.orphans}

\* time d passes for the timers and the copies of the runtime
passTime(d) ==
  /\ turnTimer' = IF turnTimer.armed THEN [turnTimer EXCEPT !.endsAt = turnTimer.endsAt - d]
                  ELSE turnTimer
  /\ sched' = [sched EXCEPT !.orphans = [i \in DOMAIN sched.orphans |->
                   [sched.orphans[i] EXCEPT !.endsAt = sched.orphans[i].endsAt - d]]]
  /\ rt' = elapse(rt, d)
  /\ sitReq' = [sitReq EXCEPT !.rt = elapse(sitReq.rt, d)]

\* time passes until the first pending deadline is reached
TimePasses ==
  /\ pendingDeadlines # {}
  /\ \A e \in pendingDeadlines : Now < e
  /\ timeouts < MaxTimeouts
  /\ passTime(MinOf(pendingDeadlines) - Now)
  /\ timeouts' = timeouts + 1
  /\ last' = Last("tick", 0, "", 0, FALSE, NoRes, NoRes)
  /\ UNCHANGED <<restarts, starting, hasRt, dbSeats, dealerPtr, wallet, timeoutStrikes, pendingAwayKick,
                 revealing, tail, handsStarted>>

(* revealPendingBoard after its entry: one step per sleep *)
\* end of the reveal: unlock actions, fresh deadline unless auto-runout
revealFinish(w, t) ==
  IF ~w.hasRt THEN w
  ELSE LET r1 == [w.rt EXCEPT !.pendingBoard = <<>>, !.isDealingBoard = FALSE,
                              !.turnEndsAt = IF w.rt.autoRunout THEN w.rt.turnEndsAt
                                             ELSE t + TURN_TIME_MS]
           w1 == [w EXCEPT !.rt = r1]
       IN IF r1.autoRunout THEN w1 ELSE scheduleTurnTimer(w1)

\* one iteration of the card loop (after the pre-delay or the card interval)
RevealCard ==
  /\ tail.pc = "card"
  /\ LET cards == IF hasRt THEN rt.pendingBoard ELSE <<>>
     IN IF cards = <<>>
        THEN Commit([revealFinish(World, Now) EXCEPT !.tail = [tail EXCEPT !.pc = "post"]])
        ELSE Commit([World EXCEPT
                 !.rt = [rt EXCEPT !.board = Append(rt.board, Head(cards)),
                                   !.pendingBoard = Tail(cards)],
                 !.tail = [tail EXCEPT !.i = tail.i + 1,
                                       !.pc = IF tail.i + 1 < tail.n THEN "card" ELSE "final"]])
  /\ last' = Last("reveal", 0, "", 0, FALSE, NoRes, NoRes)
  /\ UNCHANGED <<restarts, starting, dealerPtr, sched, sitReq, handsStarted, timeouts>>

RevealFinal ==
  /\ tail.pc = "final"
  /\ Commit([revealFinish(World, Now) EXCEPT !.tail = [tail EXCEPT !.pc = "post"]])
  /\ last' = Last("reveal", 0, "", 0, FALSE, NoRes, NoRes)
  /\ UNCHANGED <<restarts, starting, dealerPtr, sched, sitReq, handsStarted, timeouts>>

\* after the post-delay: release the reveal lock, the caller goes on with runAutoRunout
postStep(value) ==
  runAutoRunout([World EXCEPT !.revealing = FALSE, !.tail = NoTail], tail.g, Now, value)

PostDone(x) ==
  /\ Commit(x.w)
  /\ last' = Last("runout", 0, "", 0, FALSE, NoRes, x.res)

RevealPost ==
  /\ tail.pc = "post"
  /\ \E value \in ValuesAt : PostDone(postStep(value))
  /\ UNCHANGED <<restarts, starting, dealerPtr, sched, sitReq, handsStarted, timeouts>>

Next ==
  \/ StartHand
  \/ \E u \in Users, a \in PlayerActions, amt \in RaiseAmounts \cup {0} : TableAction(u, a, amt)
  \/ TimerFire
  \/ TimePasses
  \/ RevealCard
  \/ RevealFinal
  \/ RevealPost

Spec == Init /\ [][Next]_vars

(* table:sit_out / table:sit_in: getRuntime, then setRuntime of the copy read.
   The handler is two steps, the KV read and the KV write, and other events of
   the table may run between them.                                          *)
SitRead(u, out) ==
  /\ ~sitReq.pending
  /\ sitReq.n < MaxSitRequests
  /\ sitReq' = [pending |-> TRUE, n |-> sitReq.n + 1, user |-> u, out |-> out,
                hasRt |-> hasRt, rt |-> rt]
  /\ last' = Last(IF out THEN "sit_out" ELSE "sit_in", u, "", 0, FALSE, NoRes, NoRes)
  /\ UNCHANGED <<restarts, starting, hasRt, rt, dbSeats, dealerPtr, wallet, timeoutStrikes, pendingAwayKick,
                 turnTimer, sched, starting, revealing, tail, handsStarted, timeouts>>

\* the copy read, with the caller's isSittingOut set, goes back to the KV
sitWritten(req) ==
  [req.rt EXCEPT !.players[seatOfUser(req.rt, req.user)].isSittingOut = req.out]

SitWrite ==
  /\ sitReq.pending
  /\ IF sitReq.hasRt /\ seatOfUser(sitReq.rt, sitReq.user) # Null
     THEN /\ hasRt' = TRUE
          /\ rt' = sitWritten(sitReq)
          /\ last' = Last("sit_write", sitReq.user, "", 0, FALSE, NoRes, NoRes)
     ELSE /\ UNCHANGED <<restarts, starting, hasRt, rt>>
          /\ last' = Last("sit_write", sitReq.user, "", 0, FALSE,
                          Result(IF ~sitReq.hasRt /\ sitReq.out THEN "NO_HAND_RUNNING"
                                 ELSE IF sitReq.out THEN "NOT_SEATED" ELSE "OK",
                                 hasRt, rt, dbSeats), NoRes)
  /\ sitReq' = [NoSitReq EXCEPT !.n = sitReq.n]
  /\ UNCHANGED <<restarts, starting, dbSeats, dealerPtr, wallet, timeoutStrikes, pendingAwayKick,
                 turnTimer, sched, starting, revealing, tail, handsStarted, timeouts>>

\* one short-stacked heads-up table, players who act before their deadline
InitRace ==
  /\ Init
  /\ dbSeats[1].stack = 9 /\ dbSeats[2].stack = 1 /\ dbSeats[3].stack = 0

NextRace ==
  \/ StartHand
  \/ \E u \in Users, a \in PlayerActions, amt \in RaiseAmounts \cup {0} : TableAction(u, a, amt)
  \/ RevealCard
  \/ RevealFinal
  \/ RevealPost
  \/ \E u \in Users, out \in BOOLEAN : SitRead(u, out)
  \/ SitWrite

SpecRace == InitRace /\ [][NextRace]_vars

(* The showdown as a function of the runtime it is given: a river whose betting is
   settled, for every committed amount, folded set, dealer and evaluator result.
   The evaluator's result for a seat is fixed by its hole cards (KV private keys)
   and the board; it is carried in the seat's record as value.              *)
ShowdownSeatNos == 1..4
ShowdownCommitted == {0, 1, 100, 200}

showdownRuntime(committed, folded, value, dealer) ==
  [NoRt EXCEPT
     !.handId = 1, !.round = "RIVER", !.dealerSeat = dealer, !.currentTurnSeat = dealer,
     !.deck = [lo |-> 2 * Cardinality(ShowdownSeatNos) + 6, hi |-> DECK_SIZE],
     !.board = [i \in 1..5 |-> 2 * Cardinality(ShowdownSeatNos) + i],
     !.pot = SumOver(committed, ShowdownSeatNos),
     !.actedThisRound = [s \in ShowdownSeatNos |-> TRUE],
     !.players = [s \in ShowdownSeatNos |->
        [seatNo |-> s, userId |-> s, stack |-> 0, bet |-> 0, committed |-> committed[s],
         isAllIn |-> s \notin folded, hasFolded |-> s \in folded, timeoutsInRow |-> 0,
         isSittingOut |-> FALSE, value |-> value[s]]]]

InitShowdown ==
  /\ hasRt = TRUE
  /\ \E committed \in [ShowdownSeatNos -> ShowdownCommitted], folded \in SUBSET ShowdownSeatNos,
        value \in [ShowdownSeatNos -> HandValues], dealer \in ShowdownSeatNos :
       /\ \A s \in folded : value[s] = 1
       /\ \A s \in ShowdownSeatNos \ folded : committed[s] > 0
       /\ rt = showdownRuntime(committed, folded, value, dealer)
  /\ dbSeats = [s \in ShowdownSeatNos |-> [userId |-> s, stack |-> 0, state |-> "PLAYING"]]
  /\ dealerPtr = rt.dealerSeat
  /\ wallet = [u \in Users |-> 0]
  /\ timeoutStrikes = [u \in Users |-> 0]
  /\ pendingAwayKick = {}
  /\ turnTimer = NoTimer
  /\ sched = NoSched
  /\ starting = NoStart
  /\ restarts = 0
  /\ revealing = FALSE
  /\ tail = NoTail
  /\ sitReq = NoSitReq
  /\ handsStarted = 1
  /\ timeouts = 0
  /\ last = Last("init", 0, "", 0, FALSE, NoRes, NoRes)

\* the round is settled on the river: the showdown branch of applyTableAction
ResolveShowdown ==
  /\ hasRt
  /\ Commit(withResult(World, showdownResult(resetBets(rt), dbSeats,
                                             [s \in SeatsOf(rt) |-> rt.players[s].value], rt)))
  /\ last' = Last("showdown", 0, "", 0, FALSE,
                  showdownResult(resetBets(rt), dbSeats,
                                 [s \in SeatsOf(rt) |-> rt.players[s].value], rt), NoRes)
  /\ UNCHANGED <<restarts, starting, dealerPtr, sched, sitReq, handsStarted, timeouts>>

NextShowdown == ResolveShowdown

SpecShowdown == InitShowdown /\ [][NextShowdown]_vars

(* Ring games: a table of four seats, three or four of them occupied, any dealer
   pointer left by earlier hands; the players fold, check or call before their
   deadline.  Seat 3 is short: posting the big blind or calling puts it all-in. *)
SeatingSeatNos == 1..4
SeatingUsers == 1..4
SeatingStacks == <<9, 9, 4, 9>>

InitSeating ==
  /\ hasRt = FALSE
  /\ rt = NoRt
  /\ \E occ \in SUBSET SeatingSeatNos :
       /\ Cardinality(occ) >= 3
       /\ dbSeats = [s \in SeatingSeatNos |->
            IF s \in occ THEN [userId |-> s, stack |-> SeatingStacks[s], state |-> "SITTING"]
            ELSE [userId |-> Null, stack |-> 0, state |-> "EMPTY"]]
  /\ dealerPtr \in {Null} \cup SeatingSeatNos
  /\ wallet = [u \in SeatingUsers |-> 0]
  /\ timeoutStrikes = [u \in SeatingUsers |-> 0]
  /\ pendingAwayKick = {}
  /\ turnTimer = NoTimer
  /\ sched = NoSched
  /\ starting = NoStart
  /\ restarts = 0
  /\ revealing = FALSE
  /\ tail = NoTail
  /\ sitReq = NoSitReq
  /\ handsStarted = 0
  /\ timeouts = 0
  /\ last = Last("init", 0, "", 0, FALSE, NoRes, NoRes)

NextSeating ==
  \/ StartHand
  \/ \E u \in SeatingUsers, a \in {"FOLD", "CHECK", "CALL"} : TableAction(u, a, 0)
  \/ RevealCard
  \/ RevealFinal
  \/ RevealPost

SpecSeating == InitSeating /\ [][NextSeating]_vars

(* Concurrent scheduleTurnTimer calls.  table:join runs scheduleTurnTimer without
   awaiting it: clearTurnTimer, then the KV read, then setTimeout and
   turnTimers.set.  Other events of the table, other table:join included, run
   between the clear and the set.  A timer that turnTimers no longer holds
   cannot be cleared any more: it stays pending until it fires.             *)
\* table:join up to the KV read of its scheduleTurnTimer (the requests that arrive
\* while a turn is on the clock)
JoinSchedule ==
  /\ sched.n < MaxJoins
  /\ hasRt /\ rt.turnEndsAt # Null
  /\ turnTimer' = NoTimer
  /\ sched' = [sched EXCEPT !.calls = sched.calls + 1, !.n = sched.n + 1]
  /\ last' = Last("join", 0, "", 0, FALSE, NoRes, NoRes)
  /\ UNCHANGED <<restarts, starting, hasRt, rt, dbSeats, dealerPtr, wallet, timeoutStrikes, pendingAwayKick,
                 revealing, tail, sitReq, handsStarted, timeouts>>

\* the rest of the call: the runtime's deadline is armed and stored in turnTimers,
\* over the entry another call stored meanwhile
JoinArm ==
  /\ sched.calls > 0
  /\ IF scheduleTurnTimer(World).timer.armed
     THEN /\ turnTimer' = scheduleTurnTimer(World).timer
          /\ sched' = [sched EXCEPT !.calls = sched.calls - 1,
                                    !.orphans = IF turnTimer.armed
                                                THEN Append(sched.orphans, turnTimer)
                                                ELSE sched.orphans]
     ELSE /\ turnTimer' = turnTimer
          /\ sched' = [sched EXCEPT !.calls = sched.calls - 1]
  /\ last' = Last("join_arm", 0, "", 0, FALSE, NoRes, NoRes)
  /\ UNCHANGED <<restarts, starting, hasRt, rt, dbSeats, dealerPtr, wallet, timeoutStrikes, pendingAwayKick,
                 revealing, tail, sitReq, handsStarted, timeouts>>

dropOrphan(i) ==
  [sched EXCEPT !.orphans = [j \in 1..(Len(sched.orphans) - 1) |->
                               IF j < i THEN sched.orphans[j] ELSE sched.orphans[j + 1]]]

\* the callback of a pending timer that turnTimers no longer holds
OrphanFire ==
  /\ \E i \in DOMAIN sched.orphans :
       /\ Now >= sched.orphans[i].endsAt
       /\ \E value \in ValuesAt : TimerDone(timerStep(World, sched.orphans[i].endsAt, value))
       /\ sched' = dropOrphan(i)
  /\ UNCHANGED <<restarts, starting, dealerPtr, sitReq, handsStarted, timeouts>>

\* a millisecond passes between two events, no deadline being due
Millisecond ==
  /\ sched.ms < MaxMillis
  /\ hasRt
  /\ \A e \in pendingDeadlines : Now + 1 < e
  /\ turnTimer' = IF turnTimer.armed THEN [turnTimer EXCEPT !.endsAt = turnTimer.endsAt - 1]
                  ELSE turnTimer
  /\ sched' = [sched EXCEPT !.ms = sched.ms + 1,
                            !.orphans = [i \in DOMAIN sched.orphans |->
                               [sched.orphans[i] EXCEPT !.endsAt = sched.orphans[i].endsAt - 1]]]
  /\ rt' = elapse(rt, 1)
  /\ sitReq' = [sitReq EXCEPT !.rt = elapse(sitReq.rt, 1)]
  /\ last' = Last("tick", 0, "", 0, FALSE, NoRes, NoRes)
  /\ UNCHANGED <<restarts, starting, hasRt, dbSeats, dealerPtr, wallet, timeoutStrikes, pendingAwayKick,
                 revealing, tail, handsStarted, timeouts>>

\* one heads-up table with equal stacks, followed up to the end of the first street
InitTimers ==
  /\ Init
  /\ dbSeats[1].stack = 5 /\ dbSeats[2].stack = 5 /\ dbSeats[3].stack = 0

NextTimers ==
  \/ StartHand
  \/ \E u \in {1, 2}, a \in PlayerActions, amt \in {0, 8} : TableAction(u, a, amt)
  \/ TimerFire
  \/ OrphanFire
  \/ TimePasses
  \/ Millisecond
  \/ JoinSchedule
  \/ JoinArm

SpecTimers == InitTimers /\ [][NextTimers]_vars

(* Leaving the table: table:leave, and the removals that table:join of another table
   and a socket disconnect run through removePlayerFromOtherTables.  One heads-up
   table, with enough timer expiries for a user to reach AWAY_TIMEOUTS_IN_ROW.   *)
MaxAwayTimeouts == 2   \* turn-timer expiries per behaviour when users go away
AwayUsers == {2}       \* the users who leave or get disconnected

\* table-management.service.ts checkAndCleanupEmptyTable: no player left at the
\* table, the runtime is cleared
checkAndCleanupEmptyTable(w) ==
  IF \E s \in DOMAIN w.db : w.db[s].state # "EMPTY" /\ w.db[s].userId # Null THEN w
  ELSE [w EXCEPT !.hasRt = FALSE, !.rt = NoRt]

\* removePlayerFromOtherTables for this table: the user's seat is cashed out and
\* emptied whatever the hand is doing
removePlayerFromOtherTables(w, u) ==
  IF \E s \in DOMAIN w.db : w.db[s].userId = u /\ w.db[s].state \in {"SITTING", "PLAYING"}
  THEN checkAndCleanupEmptyTable(leaveWithCashout(w, u))
  ELSE w

\* the user is a participant of the running hand that has not folded
isActiveInHand(has, r, u) ==
  has /\ seatOfUser(r, u) # Null /\ ~r.players[seatOfUser(r, u)].hasFolded

\* table:leave
TableLeave(u) ==
  /\ IF isActiveInHand(hasRt, rt, u)
     THEN /\ Commit([World EXCEPT !.kicks = pendingAwayKick \cup {u}])
          /\ last' = Last("leave", u, "", 0, FALSE,
                          Result("LEAVE_PENDING", hasRt, rt, dbSeats), NoRes)
     ELSE /\ Commit(checkAndCleanupEmptyTable(leaveWithCashout(World, u)))
          /\ last' = Last("leave", u, "", 0, FALSE, Result("OK", hasRt, rt, dbSeats), NoRes)
  /\ UNCHANGED <<restarts, starting, dealerPtr, sched, sitReq, handsStarted, timeouts>>

\* the user's socket disconnects, or the user joins another table (the events that
\* arrive while a hand is running)
RemovedElsewhere(u, cause) ==
  /\ hasRt
  /\ Commit(removePlayerFromOtherTables(World, u))
  /\ last' = Last(cause, u, "", 0, FALSE, Result("OK", hasRt, rt, dbSeats), NoRes)
  /\ UNCHANGED <<restarts, starting, dealerPtr, sched, sitReq, handsStarted, timeouts>>

\* time passes until the pending deadline is reached
AwayTimePasses ==
  /\ pendingDeadlines # {}
  /\ \A e \in pendingDeadlines : Now < e
  /\ timeouts < MaxAwayTimeouts
  /\ passTime(MinOf(pendingDeadlines) - Now)
  /\ timeouts' = timeouts + 1
  /\ last' = Last("tick", 0, "", 0, FALSE, NoRes, NoRes)
  /\ UNCHANGED <<restarts, starting, hasRt, dbSeats, dealerPtr, wallet, timeoutStrikes, pendingAwayKick,
                 revealing, tail, handsStarted>>

InitAway ==
  /\ Init
  /\ dbSeats[1].stack = 9 /\ dbSeats[2].stack = 5 /\ dbSeats[3].stack = 0

NextAway ==
  \/ StartHand
  \/ \E u \in {1, 2}, a \in {"FOLD", "CHECK", "CALL"} : TableAction(u, a, 0)
  \/ TimerFire
  \/ AwayTimePasses
  \/ RevealCard
  \/ RevealFinal
  \/ RevealPost
  \/ \E u \in AwayUsers : TableLeave(u)
  \/ \E u \in AwayUsers, cause \in {"disconnect", "join_other"} : RemovedElsewhere(u, cause)

SpecAway == InitAway /\ [][NextAway]_vars

(* The timer callback racing with a table:action of the seat on turn.  The callback
   reads the runtime, counts the strike, then calls applyTableAction, which reads
   the runtime again; table:action resets the caller's strikes, then reads the
   runtime and applies the action.  Each is two steps here, and the steps of the
   two interleave.                                                              *)
\* the callback's checks on the runtime it read
callbackGoesOn(endsAt) ==
  /\ hasRt /\ ~rt.isDealingBoard /\ ~rt.autoRunout
  /\ rt.turnEndsAt # Null /\ rt.turnEndsAt = endsAt
  /\ rt.currentTurnSeat \in SeatsOf(rt)
  /\ ~rt.players[rt.currentTurnSeat].hasFolded

\* the callback up to its applyTableAction: the strike is counted
TimerRead ==
  /\ turnTimer.armed
  /\ Now >= turnTimer.endsAt
  /\ ~sched.cb.pending
  /\ IF callbackGoesOn(turnTimer.endsAt)
     THEN LET seat == rt.players[rt.currentTurnSeat]
          IN /\ Commit([countStrike(World, seat.userId, seat.isSittingOut)
                          EXCEPT !.timer = NoTimer])
             /\ sched' = [sched EXCEPT !.cb =
                  [pending |-> TRUE, user |-> seat.userId,
                   forced |-> IF Max(0, rt.currentBet - seat.bet) = 0 THEN "CHECK" ELSE "FOLD",
                   round |-> rt.round, timeout |-> ~seat.isSittingOut]]
             /\ last' = Last("timer_read", seat.userId, "", 0, ~seat.isSittingOut, NoRes, NoRes)
     ELSE /\ Commit([World EXCEPT !.timer = NoTimer])
          /\ sched' = sched
          /\ last' = Last("timer_read", 0, "", 0, FALSE, NoRes, NoRes)
  /\ UNCHANGED <<restarts, starting, dealerPtr, sitReq, handsStarted, timeouts>>

\* the rest of the callback: applyTableAction on the runtime as it is now
TimerApply ==
  /\ sched.cb.pending
  /\ \E value \in ValuesAt :
       TimerDone(timerOutcome(World, sched.cb.round,
                              applyTableAction(hasRt, rt, dbSeats, sched.cb.user,
                                               sched.cb.forced, 0, sched.cb.timeout, Now, value),
                              sched.cb.forced, sched.cb.user, sched.cb.timeout, value))
  /\ sched' = [sched EXCEPT !.cb = NoCallback]
  /\ UNCHANGED <<restarts, starting, dealerPtr, sitReq, handsStarted, timeouts>>

\* table:action up to its KV read: the caller's strikes are reset
ActionStart(u, a) ==
  /\ hasRt
  /\ ~sched.act.pending
  /\ timeoutStrikes' = [timeoutStrikes EXCEPT ![u] = 0]
  /\ sched' = [sched EXCEPT !.act = [pending |-> TRUE, user |-> u, action |-> a]]
  /\ last' = Last("action_start", u, "", 0, FALSE, NoRes, NoRes)
  /\ UNCHANGED <<restarts, starting, hasRt, rt, dbSeats, dealerPtr, wallet, pendingAwayKick, turnTimer,
                 revealing, tail, sitReq, handsStarted, timeouts>>

\* the rest of table:action
ActionApply ==
  /\ sched.act.pending
  /\ \E value \in ValuesAt :
       ActionDone(actionOutcome(World, rt.round,
                                applyTableAction(hasRt, rt, dbSeats, sched.act.user,
                                                 sched.act.action, 0, FALSE, Now, value),
                                value),
                  sched.act.user, sched.act.action, 0)
  /\ sched' = [sched EXCEPT !.act = NoRequest]
  /\ UNCHANGED <<restarts, starting, dealerPtr, sitReq, handsStarted, timeouts>>

InitStrikes ==
  /\ Init
  /\ dbSeats[1].stack = 9 /\ dbSeats[2].stack = 5 /\ dbSeats[3].stack = 0

NextStrikes ==
  \/ StartHand
  \/ \E u \in {1, 2}, a \in {"FOLD", "CHECK", "CALL"} : ActionStart(u, a)
  \/ ActionApply
  \/ TimerRead
  \/ TimerApply
  \/ AwayTimePasses
  \/ RevealCard
  \/ RevealFinal
  \/ RevealPost

SpecStrikes == InitStrikes /\ [][NextStrikes]_vars

(* startHandIfReady invoked concurrently (table:sit, the restart after a hand): the
   fast-path read, the SET NX of hand_lock and the construction are separate KV
   round trips, and the invocations interleave between them.                   *)
StartPc(i, pc) == [starting EXCEPT !.pc[i] = pc]

notStarted(i) == Last("start", i, "not_started", 0, FALSE, NoRes, NoRes)

\* fast path: a runtime exists, nothing is started
StartRead(i) ==
  /\ starting.pc[i] = "idle"
  /\ starting' = StartPc(i, IF hasRt THEN "done" ELSE "lock")
  /\ last' = IF hasRt THEN notStarted(i) ELSE Last("start_read", i, "", 0, FALSE, NoRes, NoRes)
  /\ UNCHANGED <<restarts, hasRt, rt, dbSeats, dealerPtr, wallet, timeoutStrikes, pendingAwayKick,
                 turnTimer, sched, revealing, tail, sitReq, handsStarted, timeouts>>

\* redis.set(lockKey, "1", "PX", 5000, "NX")
StartLock(i) ==
  /\ starting.pc[i] = "lock"
  /\ starting' = IF starting.lock THEN StartPc(i, "done")
                 ELSE [StartPc(i, "build") EXCEPT !.lock = TRUE]
  /\ last' = IF starting.lock THEN notStarted(i)
             ELSE Last("start_lock", i, "", 0, FALSE, NoRes, NoRes)
  /\ UNCHANGED <<restarts, hasRt, rt, dbSeats, dealerPtr, wallet, timeoutStrikes, pendingAwayKick,
                 turnTimer, sched, revealing, tail, sitReq, handsStarted, timeouts>>

\* under the lock: the hand is built from the relational seats and written, the
\* lock is deleted
StartBuild(i) ==
  /\ starting.pc[i] = "build"
  /\ starting' = [StartPc(i, "done") EXCEPT !.lock = FALSE]
  /\ IF Cardinality(seatedOf(dbSeats)) < 2
     THEN /\ last' = notStarted(i)
          /\ UNCHANGED <<restarts, hasRt, rt, dbSeats, dealerPtr, wallet, timeoutStrikes,
                         pendingAwayKick, turnTimer, revealing, tail, handsStarted>>
     ELSE LET r == newHand(dbSeats, dealerPtr, handsStarted + 1)
              db1 == [s \in DOMAIN dbSeats |-> IF s \in SeatsOf(r)
                                        THEN [dbSeats[s] EXCEPT !.stack = r.players[s].stack,
                                                                !.state = "PLAYING"]
                                        ELSE dbSeats[s]]
          IN /\ Commit(scheduleTurnTimer([World EXCEPT !.hasRt = TRUE, !.rt = r, !.db = db1]))
             /\ dealerPtr' = r.dealerSeat
             /\ handsStarted' = handsStarted + 1
             /\ last' = Last("start", i, "started", 0, FALSE, NoRes, NoRes)
  /\ UNCHANGED <<restarts, sched, sitReq, timeouts>>

NextStart ==
  \/ \E i \in StartCalls : StartRead(i)
  \/ \E i \in StartCalls : StartLock(i)
  \/ \E i \in StartCalls : StartBuild(i)

SpecStart == Init /\ [][NextStart]_vars

(* Process restart.  The gateway's maps, timers and running reveal sequences are
   lost; the KV (runtime, dealer pointer) and the relational seats stay.  On boot
   recoverActiveTimers runs scheduleTurnTimer for every stored runtime.        *)
MaxRestarts == 1       \* process restarts per behaviour
DownMs == {0, 500}     \* milliseconds the process is down

\* a recovery that reschedules nothing
recoverNothing(w) == w

\* timer-recovery.ts recoverActiveTimers, for the table
recoverActiveTimers(w) == scheduleTurnTimer(w)

\* the process stops, d ms pass, the new process boots and recovers the timers
Restart(d) ==
  /\ restarts < MaxRestarts
  /\ hasRt
  /\ restarts' = restarts + 1
  /\ Commit(recoverActiveTimers(
       [World EXCEPT !.rt = elapse(rt, d),
                     !.strikes = [u \in Users |-> 0], !.kicks = {},
                     !.timer = NoTimer, !.revealing = FALSE, !.tail = NoTail]))
  /\ sched' = NoSched
  /\ sitReq' = NoSitReq
  /\ starting' = [starting EXCEPT !.pc = NoStart.pc]
  /\ last' = Last("restart", 0, "", d, FALSE, NoRes, NoRes)
  /\ UNCHANGED <<dealerPtr, handsStarted, timeouts>>

\* a seat that can act does act
PlayerActs == \E u \in {1, 2}, a \in {"FOLD", "CHECK", "CALL"} :
                TableAction(u, a, 0) /\ last'.res.err = "OK"

InitRecovery ==
  /\ Init
  /\ dbSeats[1].stack = 9 /\ dbSeats[2].stack = 5 /\ dbSeats[3].stack = 0

NextRecovery ==
  \/ StartHand
  \/ \E u \in {1, 2}, a \in {"FOLD", "CHECK", "CALL"} : TableAction(u, a, 0)
  \/ TimerFire
  \/ TimePasses
  \/ RevealCard
  \/ RevealFinal
  \/ RevealPost
  \/ \E d \in DownMs : Restart(d)

\* ENABLED <<TimerFire>>_vars: the armed timer is due
TimerDue == turnTimer.armed /\ Now >= turnTimer.endsAt

\* ENABLED <<PlayerActs>>_vars: some action of a seat would be accepted
PlayerCanAct ==
  \E u \in {1, 2}, a \in {"FOLD", "CHECK", "CALL"} :
    \E value \in ValuesAt : actionStep(u, a, 0, value).res.err = "OK"

\* timers fire, sleeps end, and a player whose turn has no deadline acts in the end;
\* the last two conjuncts are WF_vars(TimerFire) and WF_vars(PlayerActs) with
\* their ENABLED written out
SpecRecovery ==
  /\ InitRecovery /\ [][NextRecovery]_vars
  /\ WF_vars(StartHand) /\ WF_vars(TimePasses)
  /\ WF_vars(RevealCard) /\ WF_vars(RevealFinal) /\ WF_vars(RevealPost)
  /\ ([]<>~TimerDue \/ []<><<TimerFire>>_vars)
  /\ ([]<>~PlayerCanAct \/ []<><<PlayerActs>>_vars)

(* What the gateway sends.  table.service.ts buildPublicState is the body of
   table:state and of every STATE_SNAPSHOT.  The hole cards of a hand live in
   the KV under one private key per user: startHandIfReady draws two cards per
   seated player before anything else leaves the deck, so the k-th seat of the
   hand holds cards 2k-1 and 2k.                                             *)
holeCards(r, s) == {2 * Cardinality({t \in SeatsOf(r) : t <= s}) - 1,
                    2 * Cardinality({t \in SeatsOf(r) : t <= s})}

\* a snapshot whose game copies the cards still to be revealed
buildPublicStateWithPending(has, r, db) ==
  [seats |-> [s \in DOMAIN db |-> [seatNo |-> s, state |-> db[s].state, user |-> db[s].userId]],
   game |-> IF has THEN [handId |-> r.handId, board |-> r.board \o r.pendingBoard]
            ELSE [handId |-> Null, board |-> <<>>]]

\* has, r: what getRuntime returned; seated: the seat has a player in the runtime
buildPublicState(has, r, db) ==
  [seats |-> [s \in DOMAIN db |->
      IF has /\ s \in SeatsOf(r)
      THEN [seatNo |-> s, state |-> db[s].state, user |-> db[s].userId,
            stack |-> r.players[s].stack, bet |-> r.players[s].bet,
            hasFolded |-> r.players[s].hasFolded, isAllIn |-> r.players[s].isAllIn,
            isSittingOut |-> r.players[s].isSittingOut,
            isDealer |-> r.dealerSeat = s, isTurn |-> r.currentTurnSeat = s]
      ELSE [seatNo |-> s, state |-> db[s].state, user |-> db[s].userId,
            stack |-> db[s].stack, bet |-> 0, hasFolded |-> FALSE, isAllIn |-> FALSE,
            isSittingOut |-> FALSE,
            isDealer |-> has /\ r.dealerSeat = s, isTurn |-> has /\ r.currentTurnSeat = s]],
   game |->
      IF has
      THEN [handId |-> r.handId, round |-> r.round, board |-> r.board, pot |-> r.pot,
            currentBet |-> r.currentBet, minRaise |-> r.minRaise,
            turnEndsAt |-> r.turnEndsAt, isDealingBoard |-> r.isDealingBoard,
            autoRunout |-> r.autoRunout]
      ELSE [handId |-> Null, round |-> "NONE", board |-> <<>>, pot |-> 0,
            currentBet |-> 0, minRaise |-> BigBlind, turnEndsAt |-> Null,
            isDealingBoard |-> FALSE, autoRunout |-> FALSE]]

\* getOrBuildTableState while a hand runs, and right after a handler dropped the cache
tableState == buildPublicState(hasRt, rt, dbSeats)

\* a reveal list that leaves out no seat
showdownRevealAll(r) == [s \in SeatsOf(r) |-> holeCards(r, s)]

\* resolveShowdown's reveal: seat -> hole cards, for the seats that have not folded
showdownReveal(r) == [s \in {t \in SeatsOf(r) : ~r.players[t].hasFolded} |-> holeCards(r, s)]

\* the runtime that the showdown of the last handler resolved
resolvedRuntime == IF last.auto.ended = "showdown" THEN last.auto.pre ELSE last.res.pre

\* the events the last handler sent to the room table:{tableId}, with the cards
\* each of them carries.  SHOWDOWN_REVEAL and HAND_ENDED follow a showdown that
\* runAutoRunout, or applyTableAction in table:action, returned to the handler
tableRoomEvents ==
  {[type |-> "STATE_SNAPSHOT",
    cards |-> {tableState.game.board[i] : i \in DOMAIN tableState.game.board}]}
    \cup (IF last.auto.ended = "showdown" \/ (last.op = "action" /\ last.res.ended = "showdown")
          THEN {[type |-> "SHOWDOWN_REVEAL",
                 cards |-> UNION {showdownReveal(resolvedRuntime)[s] :
                                    s \in DOMAIN showdownReveal(resolvedRuntime)}],
                [type |-> "HAND_ENDED", cards |-> {}]}
          ELSE {})
    \cup (IF last.op \in {"action", "timer"} /\ last.res.ended = "fold"
          THEN {[type |-> "HAND_ENDED", cards |-> {}]} ELSE {})
    \cup (IF last.op = "start" THEN {[type |-> "HAND_STARTED", cards |-> {}]} ELSE {})

\* the events the last handler sent to the room user:{u}
userRoomEvents(u) ==
  IF last.op = "start" /\ hasRt /\ seatOfUser(rt, u) # Null
  THEN {[type |-> "table:private_cards", cards |-> holeCards(rt, seatOfUser(rt, u))]}
  ELSE {}

(* The caller of startHandIfReady step by step.  startHandIfReady returns once
   the runtime is written; its caller then awaits the snapshot, emits it and
   HAND_STARTED, and awaits getPrivateCards for one player after the other,
   emitting table:private_cards after each.  Other handlers run between these
   steps.                                                                     *)
\* startHandIfReady has written the runtime; the private cards are still to be sent
StartDeal ==
  /\ ~hasRt
  /\ handsStarted < MaxHands
  /\ starting.owed = {}
  /\ Cardinality(seatedOf(dbSeats)) >= 2
  /\ LET r == newHand(dbSeats, dealerPtr, handsStarted + 1)
         db1 == [s \in DOMAIN dbSeats |-> IF s \in SeatsOf(r)
                                   THEN [dbSeats[s] EXCEPT !.stack = r.players[s].stack,
                                                           !.state = "PLAYING"]
                                   ELSE dbSeats[s]]
     IN /\ Commit([World EXCEPT !.hasRt = TRUE, !.rt = r, !.db = db1])
        /\ starting' = [starting EXCEPT !.owed = {r.players[s].userId : s \in SeatsOf(r)}]
        /\ dealerPtr' = r.dealerSeat
        /\ handsStarted' = handsStarted + 1
        /\ last' = Last("start", 0, "", 0, FALSE, NoRes, NoRes)
  /\ UNCHANGED <<restarts, sched, sitReq, timeouts>>

\* the next iteration of the loop over start.runtime.players: table:private_cards
\* goes to the room of user u; after the last one the caller runs scheduleTurnTimer
EmitCards(u) ==
  /\ u \in starting.owed
  /\ \A v \in starting.owed : u <= v
  /\ starting' = [starting EXCEPT !.owed = starting.owed \ {u}]
  /\ Commit(IF starting.owed = {u} THEN scheduleTurnTimer(World) ELSE World)
  /\ last' = Last("private_cards", u, "", 0, FALSE, NoRes, NoRes)
  /\ UNCHANGED <<restarts, dealerPtr, sched, sitReq, handsStarted, timeouts>>

NextCards ==
  \/ StartDeal
  \/ \E u \in Users : EmitCards(u)
  \/ \E u \in Users, a \in {"FOLD", "CHECK", "CALL"} : TableAction(u, a, 0)
  \/ TimerFire
  \/ TimePasses
  \/ RevealCard
  \/ RevealFinal
  \/ RevealPost

SpecCards == Init /\ [][NextCards]_vars

(* table:rebuy.  The wallet variable counts the chips moved to a wallet since
   the start; every wallet held WalletStart before.                         *)
WalletStart == 10
RebuyAmounts == {4}

\* the handler's check on the runtime, then rebuyStack's checks: the error thrown,
\* "OK" when the rebuy goes through
rebuyStack(has, r, db, wal, u, amount) ==
  IF isActiveInHand(has, r, u) THEN "HAND_IN_PROGRESS"
  ELSE IF amount <= 0 THEN "INVALID_AMOUNT"
  ELSE IF ~\E s \in DOMAIN db : db[s].userId = u THEN "NOT_SEATED"
  ELSE IF db[CHOOSE s \in DOMAIN db : db[s].userId = u].state = "PLAYING" THEN "HAND_IN_PROGRESS"
  ELSE IF db[CHOOSE s \in DOMAIN db : db[s].userId = u].stack + amount > BigBlind * 100
       THEN "REBUY_EXCEEDS_MAX"
  ELSE IF WalletStart + wal[u] < amount THEN "INSUFFICIENT_FUNDS"
  ELSE "OK"

Rebuy(u, amount) ==
  /\ IF rebuyStack(hasRt, rt, dbSeats, wallet, u, amount) = "OK"
     THEN /\ wallet' = [wallet EXCEPT ![u] = wallet[u] - amount]
          /\ dbSeats' = [s \in DOMAIN dbSeats |->
                           IF dbSeats[s].userId = u
                           THEN [dbSeats[s] EXCEPT !.stack = dbSeats[s].stack + amount]
                           ELSE dbSeats[s]]
     ELSE UNCHANGED <<wallet, dbSeats>>
  /\ last' = Last("rebuy", u, "", amount, FALSE,
                  Result(rebuyStack(hasRt, rt, dbSeats, wallet, u, amount), hasRt, rt, dbSeats),
                  NoRes)
  /\ UNCHANGED <<hasRt, rt, dealerPtr, timeoutStrikes, pendingAwayKick, turnTimer, sched,
                 starting, revealing, tail, sitReq, restarts, handsStarted, timeouts>>

NextRebuy ==
  \/ StartHand
  \/ \E u \in {1, 2}, a \in {"FOLD", "CHECK", "CALL"} : TableAction(u, a, 0)
  \/ TimerFire
  \/ TimePasses
  \/ RevealCard
  \/ RevealFinal
  \/ RevealPost
  \/ \E u \in Users, amount \in RebuyAmounts : Rebuy(u, amount)

SpecRebuy == InitAway /\ [][NextRebuy]_vars

(* A table whose players may stop answering.  Timers fire when due, time passes
   and the sleeps of a reveal end; nothing makes a player act.              *)
NextUnattended ==
  \/ StartHand
  \/ \E u \in {1, 2}, a \in {"FOLD", "CHECK", "CALL"} : TableAction(u, a, 0)
  \/ TimerFire
  \/ TimePasses
  \/ RevealCard
  \/ RevealFinal
  \/ RevealPost

SpecUnattended ==
  /\ InitAway /\ [][NextUnattended]_vars
  /\ WF_vars(StartHand) /\ WF_vars(TimePasses)
  /\ WF_vars(RevealCard) /\ WF_vars(RevealFinal) /\ WF_vars(RevealPost)
  /\ ([]<>~TimerDue \/ []<><<TimerFire>>_vars)

(* table:sit.  sitWithBuyIn debits the wallet and takes the seat in one
   transaction; the handler then runs startHandIfReady and scheduleTurnTimer, so
   the second seat taken starts the hand.  One user is seated at the beginning.
   The users come with funds for two buy-ins of 20 big blinds.               *)
BuyIns == {20 * BigBlind}
SitWallets == {190}

\* table.service.ts sitWithBuyIn: the error it throws, or OK
sitWithBuyIn(db, wal, u, seatNo, buyInAmount) ==
  IF buyInAmount <= 0 THEN "INVALID_AMOUNT"
  ELSE IF seatNo \notin DOMAIN db THEN "SEAT_NOT_FOUND"
  ELSE IF db[seatNo].userId # Null THEN "SEAT_TAKEN"
  ELSE IF buyInAmount < BigBlind * 20 THEN "BUYIN_TOO_SMALL"
  ELSE IF buyInAmount > BigBlind * 100 THEN "BUYIN_TOO_LARGE"
  ELSE IF WalletStart + wal[u] < buyInAmount THEN "INSUFFICIENT_FUNDS"
  ELSE "OK"

\* the seat taken and the wallet debited
seatTaken(w, u, seatNo, buyInAmount) ==
  [w EXCEPT !.db[seatNo] = [userId |-> u, stack |-> buyInAmount, state |-> "SITTING"],
            !.wallet[u] = w.wallet[u] - buyInAmount]

\* startHandIfReady on the seats the sit left, when no hand runs
startedBySit(w) ==
  IF w.hasRt \/ Cardinality(seatedOf(w.db)) < 2 THEN w
  ELSE LET r == newHand(w.db, dealerPtr, handsStarted + 1)
       IN [w EXCEPT !.hasRt = TRUE, !.rt = r,
                    !.db = [s \in DOMAIN w.db |->
                              IF s \in SeatsOf(r)
                              THEN [w.db[s] EXCEPT !.stack = r.players[s].stack,
                                                   !.state = "PLAYING"]
                              ELSE w.db[s]]]

\* table:sit
Sit(u, seatNo, buyInAmount) ==
  LET code == sitWithBuyIn(dbSeats, wallet, u, seatNo, buyInAmount)
      w1 == IF code = "OK" THEN startedBySit(seatTaken(World, u, seatNo, buyInAmount))
            ELSE World
      started == w1.hasRt /\ ~hasRt
  IN /\ started => handsStarted < MaxHands
     /\ Commit(IF code = "OK" THEN scheduleTurnTimer(w1) ELSE World)
     /\ dealerPtr' = IF started THEN w1.rt.dealerSeat ELSE dealerPtr
     /\ handsStarted' = IF started THEN handsStarted + 1 ELSE handsStarted
     /\ last' = Last("sit", u, "", buyInAmount, FALSE, Result(code, hasRt, rt, dbSeats), NoRes)
     /\ UNCHANGED <<restarts, starting, sched, sitReq, timeouts>>

InitSit ==
  /\ hasRt = FALSE
  /\ rt = NoRt
  /\ dbSeats = [s \in Seats |->
       IF s = 1 THEN [userId |-> 1, stack |-> 9, state |-> "SITTING"]
       ELSE [userId |-> Null, stack |-> 0, state |-> "EMPTY"]]
  /\ dealerPtr = Null
  /\ wallet \in [Users -> SitWallets]
  /\ timeoutStrikes = [u \in Users |-> 0]
  /\ pendingAwayKick = {}
  /\ turnTimer = NoTimer
  /\ sched = NoSched
  /\ starting = NoStart
  /\ restarts = 0
  /\ revealing = FALSE
  /\ tail = NoTail
  /\ sitReq = NoSitReq
  /\ handsStarted = 0
  /\ timeouts = 0
  /\ last = Last("init", 0, "", 0, FALSE, NoRes, NoRes)

NextSit ==
  \/ \E u \in Users, seatNo \in Seats, buyInAmount \in BuyIns : Sit(u, seatNo, buyInAmount)
  \/ \E u \in Users, a \in {"FOLD", "CHECK", "CALL"} : TableAction(u, a, 0)
  \/ TimerFire
  \/ TimePasses
  \/ RevealCard
  \/ RevealFinal
  \/ RevealPost

SpecSit == InitSit /\ [][NextSit]_vars

(* revealPendingBoard tests revealingTables, then reads the runtime, then adds
   the table to revealingTables: the test and the add are two steps, and the
   tails of two table:action handlers interleave.  A handler applies its action,
   sends the snapshot and flushes the kicks; its async tail then reads the
   runtime and calls revealPendingBoard when cards are pending.  The players
   act before their deadline, and with these stacks no seat is ever all-in, so
   runAutoRunout never starts a reveal of its own.                          *)
TailSlots == {1, 2}    \* the handlers whose tails are in flight together

inFlight ==
  sched.tails + sched.entering + (IF tail.pc # "idle" THEN 1 ELSE 0)
    + (IF sched.seq.pc # "idle" THEN 1 ELSE 0)

\* the table:action handler up to its async tail
actionHead(w0, beforeRound, res) ==
  IF res.err # "OK" THEN [w |-> w0, res |-> res]
  ELSE IF res.ended # "no"
  THEN [w |-> flushPendingKicks(scheduleTurnTimer(withResult(w0, res))), res |-> res]
  ELSE IF res.rt.round # beforeRound
  THEN [w |-> flushPendingKicks(scheduleTurnTimer(withResult(w0, res))), res |-> res]
  ELSE [w |-> scheduleTurnTimer(withResult(w0, res)), res |-> res]

ActionHead(u, a) ==
  /\ inFlight < Cardinality(TailSlots)
  /\ (~passesPreconditions(u) => a = "FOLD")
  /\ \E value \in ValuesAt :
       LET x == actionHead([World EXCEPT !.strikes[u] = 0], rt.round,
                           applyTableAction(hasRt, rt, dbSeats, u, a, 0, FALSE, Now, value))
       IN /\ Commit(x.w)
          /\ sched' = IF x.res.err = "OK" /\ x.res.ended = "no"
                      THEN [sched EXCEPT !.tails = sched.tails + 1] ELSE sched
          /\ last' = Last("action", u, IF x.res.err = "OK" THEN a ELSE "", 0, FALSE,
                          x.res, NoRes)
  /\ UNCHANGED <<restarts, starting, dealerPtr, sitReq, handsStarted, timeouts>>

\* the rest of a tail whose revealPendingBoard returned at once: runAutoRunout
TailGoesOn(how) ==
  \E value \in ValuesAt :
    LET x == runAutoRunout(World, 0, Now, value)
    IN /\ Commit(x.w)
       /\ last' = Last("tail", 0, how, 0, FALSE, NoRes, x.res)

\* the tail reads the runtime; with cards pending it calls revealPendingBoard,
\* which returns when the table is in revealingTables and else goes on to its read
TailRead ==
  /\ sched.tails > 0
  /\ IF hasPendingBoard(World) /\ ~revealing
     THEN /\ sched' = [sched EXCEPT !.tails = sched.tails - 1,
                                    !.entering = sched.entering + 1]
          /\ last' = Last("tail", 0, "entering", 0, FALSE, NoRes, NoRes)
          /\ UNCHANGED <<hasRt, rt, dbSeats, wallet, timeoutStrikes, pendingAwayKick,
                         turnTimer, revealing, tail>>
     ELSE /\ sched' = [sched EXCEPT !.tails = sched.tails - 1]
          /\ TailGoesOn(IF hasPendingBoard(World) THEN "dropped" ELSE "none")
  /\ UNCHANGED <<restarts, starting, dealerPtr, sitReq, handsStarted, timeouts>>

\* revealPendingBoard after its read: nothing pending, or the lock is taken and
\* a sequence begins
TailEnter ==
  /\ sched.entering > 0
  /\ IF hasRt /\ rt.pendingBoard # <<>>
     THEN /\ revealing' = TRUE
          /\ IF tail.pc = "idle"
             THEN /\ tail' = [pc |-> "card", i |-> 0, n |-> Len(rt.pendingBoard), g |-> 0]
                  /\ sched' = [sched EXCEPT !.entering = sched.entering - 1]
             ELSE /\ tail' = tail
                  /\ sched' = [sched EXCEPT !.entering = sched.entering - 1,
                         !.seq = [pc |-> "card", i |-> 0, n |-> Len(rt.pendingBoard), g |-> 0]]
          /\ last' = Last("tail", 0, "locked", 0, FALSE, NoRes, NoRes)
          /\ UNCHANGED <<hasRt, rt, dbSeats, wallet, timeoutStrikes, pendingAwayKick,
                         turnTimer>>
     ELSE /\ sched' = [sched EXCEPT !.entering = sched.entering - 1]
          /\ TailGoesOn("nothing_pending")
  /\ UNCHANGED <<restarts, starting, dealerPtr, sitReq, handsStarted, timeouts>>

\* the steps of the second sequence: the card loop, the end of the reveal, the
\* release of the lock after the post-delay
SeqCard ==
  /\ sched.seq.pc = "card"
  /\ IF hasRt /\ rt.pendingBoard # <<>>
     THEN /\ Commit([World EXCEPT
                 !.rt = [rt EXCEPT !.board = Append(rt.board, Head(rt.pendingBoard)),
                                   !.pendingBoard = Tail(rt.pendingBoard)]])
          /\ sched' = [sched EXCEPT !.seq.i = sched.seq.i + 1,
                         !.seq.pc = IF sched.seq.i + 1 < sched.seq.n THEN "card" ELSE "final"]
     ELSE /\ Commit(revealFinish(World, Now))
          /\ sched' = [sched EXCEPT !.seq.pc = "post"]
  /\ last' = Last("reveal", 0, "", 0, FALSE, NoRes, NoRes)
  /\ UNCHANGED <<restarts, starting, dealerPtr, sitReq, handsStarted, timeouts>>

SeqFinal ==
  /\ sched.seq.pc = "final"
  /\ Commit(revealFinish(World, Now))
  /\ sched' = [sched EXCEPT !.seq.pc = "post"]
  /\ last' = Last("reveal", 0, "", 0, FALSE, NoRes, NoRes)
  /\ UNCHANGED <<restarts, starting, dealerPtr, sitReq, handsStarted, timeouts>>

SeqPost ==
  /\ sched.seq.pc = "post"
  /\ \E value \in ValuesAt :
       PostDone(runAutoRunout([World EXCEPT !.revealing = FALSE], sched.seq.g, Now, value))
  /\ sched' = [sched EXCEPT !.seq = NoTail]
  /\ UNCHANGED <<restarts, starting, dealerPtr, sitReq, handsStarted, timeouts>>

NextReveal ==
  \/ StartHand
  \/ \E u \in {1, 2}, a \in {"FOLD", "CHECK", "CALL"} : ActionHead(u, a)
  \/ TailRead
  \/ TailEnter
  \/ RevealCard
  \/ RevealFinal
  \/ RevealPost
  \/ SeqCard
  \/ SeqFinal
  \/ SeqPost

SpecReveal == InitAway /\ [][NextReveal]_vars

(* The table with its sleeps ending and its timers firing: a reveal sequence in
   progress takes its next step, a due timer fires, time passes.  Nothing makes
   a player act.  The conjuncts are WF_vars of the reveal steps and of TimerFire
   with their ENABLED written out.                                           *)
SpecRunout ==
  /\ Init /\ [][Next]_vars
  /\ WF_vars(TimePasses)
  /\ ([]<>(tail.pc = "idle") \/ []<><<RevealCard \/ RevealFinal \/ RevealPost>>_vars)
  /\ ([]<>~TimerDue \/ []<><<TimerFire>>_vars)

(* ------------------------------ properties ----------------------------- *)
\* the bets of the seats of the hand
Bets(r) == {r.players[s].bet : s \in SeatsOf(r)}

\* seat s still owes a decision on the street: it can act and has not acted since
\* the street began or since the last raise, or its bet is below currentBet
Owes(r, s) ==
  /\ ~r.players[s].hasFolded
  /\ ~r.players[s].isAllIn
  /\ r.players[s].stack > 0
  /\ (~r.actedThisRound[s] \/ r.players[s].bet < r.currentBet)

\* C1: while a hand runs, pot.total is the sum of committed over the seats of the hand
C1_PotIsSumCommitted == hasRt => rt.pot = SumCommitted(rt)

\* C2: a hand that ends at showdown pays the winners, in total, the sum of committed
\* over all the seats of the hand
C2_ShowdownPaysCommitted ==
  /\ (last.res.ended = "showdown" => last.res.paid = last.res.owed)
  /\ (last.auto.ended = "showdown" => last.auto.paid = last.auto.owed)

\* C3: while a hand runs, currentBet is the largest bet of the seats of the hand
C3_CurrentBetIsMaxBet == hasRt => rt.currentBet = MaxOf(Bets(rt))

\* C4: a sit_out / sit_in request writes back the runtime that is in the KV when it
\* writes, with only the caller's isSittingOut changed: what other events wrote
\* between its read and its write is kept
C4_NoLostUpdate ==
  [][sitReq.pending /\ ~sitReq'.pending /\ sitReq.hasRt /\ seatOfUser(sitReq.rt, sitReq.user) # Null
       => /\ hasRt' = hasRt
          /\ hasRt => rt' = [rt EXCEPT !.players[seatOfUser(sitReq.rt, sitReq.user)].isSittingOut
                                          = sitReq.out]]_vars

\* the codes of the preconditions the request of user u fails in runtime (has, r)
FailedPreconditions(has, r, u) ==
  (IF ~has THEN {"NO_HAND_RUNNING"} ELSE {})
  \cup (IF has /\ r.isDealingBoard THEN {"DEALING_BOARD"} ELSE {})
  \cup (IF has /\ ~(\E s \in SeatsOf(r) : r.players[s].userId = u) THEN {"NOT_SEATED"} ELSE {})
  \cup (IF has /\ (\E s \in SeatsOf(r) : r.players[s].userId = u /\ r.players[s].hasFolded)
        THEN {"ALREADY_FOLDED"} ELSE {})
  \cup (IF has /\ (\E s \in SeatsOf(r) : r.players[s].userId = u /\ r.currentTurnSeat # s)
        THEN {"NOT_YOUR_TURN"} ELSE {})

\* C5: a call of applyTableAction whose caller fails a precondition (hand running,
\* board not being dealt, seated, not folded, owner of the turn) leaves the runtime
\* as it was and returns the code of a precondition that fails; the five codes are
\* returned for no other reason
C5_Preconditions ==
  [][last'.op \in {"action", "timer"} /\ last'.user # 0
       => /\ (FailedPreconditions(hasRt, rt, last'.user) # {}
                => /\ last'.res.err \in FailedPreconditions(hasRt, rt, last'.user)
                   /\ hasRt' = hasRt /\ rt' = rt)
          /\ (last'.res.err \in {"NO_HAND_RUNNING", "DEALING_BOARD", "NOT_SEATED",
                                 "ALREADY_FOLDED", "NOT_YOUR_TURN"}
                => last'.res.err \in FailedPreconditions(hasRt, rt, last'.user))]_vars

\* a seated user who does not own the turn sent a request and was refused
C5_Refused == last.op = "action" /\ last.res.err = "NOT_YOUR_TURN" /\ hasRt

\* C6: a table:action that fails leaves the KV runtime, the persisted stacks, the
\* strike counters and the pending-kick set as they were
C6_FailedActionChangesNothing ==
  [][last'.op = "action" /\ last'.res.err # "OK"
       => UNCHANGED <<hasRt, rt, dbSeats, timeoutStrikes, pendingAwayKick>>]_vars

\* the lowest total a full raise may reach in runtime r
MinTo(r) == IF r.currentBet = 0 THEN r.minRaise ELSE r.currentBet + r.minRaise

\* C7: after an accepted RAISE of the seat s on turn (post: the runtime after the
\* move), a raise below minTo keeps the flags of the seats that had acted and keeps
\* minRaise; a raise to minTo or more clears every other flag and sets minRaise to
\* raiseTo - previous currentBet
C7_ShortAllInKeepsAction ==
  [][last'.op = "action" /\ last'.action = "RAISE" /\ last'.res.err = "OK"
       => LET s == rt.currentTurnSeat
              post == last'.res.pre
          IN IF post.players[s].bet < MinTo(rt)
             THEN /\ \A k \in SeatsOf(rt) \ {s} : rt.actedThisRound[k] => post.actedThisRound[k]
                  /\ post.minRaise = rt.minRaise
             ELSE /\ \A k \in SeatsOf(rt) \ {s} : ~post.actedThisRound[k]
                  /\ post.minRaise = post.players[s].bet - rt.currentBet]_vars

\* the first seat of S clockwise after seat s
SeatAfter(S, s) ==
  CHOOSE k \in S : \A j \in S : (k - s + Cardinality(Seats)) % Cardinality(Seats)
                                  <= (j - s + Cardinality(Seats)) % Cardinality(Seats)

\* C8: when a step advances the street (a round change or the showdown), no seat
\* owes a decision in the runtime it advances from; and the first CHECK of a street
\* with currentBet = 0 and another seat able to act keeps the round and gives the
\* turn to the next seat able to act
C8_NoAdvanceWhileOwed ==
  [][/\ (last'.op \in {"action", "timer"} /\ last'.user # 0 /\ last'.res.advanced
           => \A s \in SeatsOf(last'.res.pre) : ~Owes(last'.res.pre, s))
     /\ (last'.auto.advanced
           => \A s \in SeatsOf(last'.auto.pre) : ~Owes(last'.auto.pre, s))
     /\ ((/\ last'.op \in {"action", "timer"} /\ last'.user # 0
          /\ last'.action = "CHECK" /\ last'.res.err = "OK"
          /\ rt.currentBet = 0
          /\ \A k \in SeatsOf(rt) : ~rt.actedThisRound[k]
          /\ rt.currentTurnSeat \in actionables(rt)
          /\ Cardinality(actionables(rt)) >= 2)
           => /\ hasRt' /\ rt'.round = rt.round /\ ~last'.res.advanced
              /\ rt'.currentTurnSeat
                   = SeatAfter(actionables(rt) \ {rt.currentTurnSeat}, rt.currentTurnSeat))]_vars

\* a CHECK of the last seat to act ended a street on which two seats could act
C8_SecondCheckAdvances ==
  /\ last.op = "action" /\ last.action = "CHECK" /\ last.res.advanced
  /\ last.res.pre.currentBet = 0
  /\ Cardinality(actionables(last.res.pre)) >= 2

\* C9: whenever autoRunout is true, no seat that can act (not folded, not all-in,
\* chips left) owes a decision on the street
C9_NoRunoutWhileOwed == hasRt /\ rt.autoRunout => \A s \in SeatsOf(rt) : ~Owes(rt, s)

\* an action settled the round and the engine set autoRunout
C9_RunoutSet ==
  /\ last.op = "action" /\ last.res.advanced
  /\ hasRt /\ rt.autoRunout /\ Cardinality(contenders(rt)) >= 2

\* C10: when an action settles a round and leaves at least two contenders, one of
\* them all-in, and at most one seat able to act, the street it opens has
\* autoRunout set and no turn deadline
C10_RunoutWhenOneCanAct ==
  (/\ last.op \in {"action", "timer"} /\ last.user # 0
   /\ last.res.advanced /\ last.res.ended = "no"
   /\ Cardinality(contenders(last.res.pre)) >= 2
   /\ \E s \in contenders(last.res.pre) : last.res.pre.players[s].isAllIn
   /\ Cardinality(actionables(last.res.pre)) <= 1)
    => hasRt /\ rt.autoRunout /\ rt.turnEndsAt = Null

\* chips a step moved from the table to the wallet of the user of seat s of runtime r
CashedOut(r, s) == wallet'[r.players[s].userId] - wallet[r.players[s].userId]

\* C11: when a FOLD leaves exactly one non-folded seat w, the hand ends as a win by
\* fold of w, the runtime is deleted, and the persisted stack of w is its stack plus
\* pot.total (the folder's is its own stack); heads-up with both blinds posted in
\* full and the SB folding first (scenario S1), the BB ends with the chips it began
\* the hand with plus the small blind and the SB with its own minus the small blind
\* (a stack cashed out to the wallet by a removal in the same step counts as persisted)
C11_FoldWinPaysPot ==
  [][(/\ last'.op \in {"action", "timer"} /\ last'.user # 0
      /\ last'.action = "FOLD" /\ last'.res.err = "OK"
      /\ Cardinality(contenders(rt) \ {rt.currentTurnSeat}) = 1)
       => LET f == rt.currentTurnSeat
              w == CHOOSE s \in contenders(rt) \ {rt.currentTurnSeat} : TRUE
          IN /\ ~hasRt'
             /\ last'.res.ended = "fold" /\ last'.res.winnerSeat = w
             /\ last'.res.paid = rt.pot
             /\ dbSeats'[w].stack + CashedOut(rt, w) = rt.players[w].stack + rt.pot
             /\ dbSeats'[f].stack + CashedOut(rt, f) = rt.players[f].stack
             /\ ((/\ Cardinality(SeatsOf(rt)) = 2 /\ rt.round = "PREFLOP"
                  /\ f = rt.dealerSeat
                  /\ rt.players[f].bet = SmallBlind /\ rt.players[w].bet = BigBlind)
                   => /\ dbSeats'[w].stack + CashedOut(rt, w)
                           = (rt.players[w].stack + BigBlind) - BigBlind + (SmallBlind + BigBlind)
                      /\ dbSeats'[f].stack + CashedOut(rt, f)
                           = (rt.players[f].stack + SmallBlind) - SmallBlind)]_vars

\* heads-up, the small blind folded preflop and the hand ended as a win by fold
C11_SbFoldedPreflop ==
  /\ last.op = "action" /\ last.action = "FOLD" /\ last.res.ended = "fold"
  /\ ~hasRt
  /\ last.res.pre.round = "PREFLOP" /\ Cardinality(SeatsOf(last.res.pre)) = 2
  /\ last.res.winnerSeat # last.res.pre.dealerSeat
  /\ dbSeats[last.res.winnerSeat].stack
       = last.res.pre.players[last.res.winnerSeat].stack + SmallBlind + BigBlind

\* chips the showdown step added to the stack of seat s
Received(s) == dbSeats'[s].stack - rt.players[s].stack

\* what the seats of r committed up to amount x each
CommittedUpTo(r, x) == SumOver([s \in SeatsOf(r) |-> Min(r.players[s].committed, x)], SeatsOf(r))

ContributionLevels(r) == {r.players[s].committed : s \in SeatsOf(r)} \ {0}

LevelBelow(r, lvl) == MaxOf({0} \cup {l \in ContributionLevels(r) : l < lvl})

\* the pot of level lvl: what was committed between the level below and lvl
LevelPot(r, lvl) == CommittedUpTo(r, lvl) - CommittedUpTo(r, LevelBelow(r, lvl))

Eligible(r, lvl) == {s \in SeatsOf(r) : ~r.players[s].hasFolded /\ r.players[s].committed >= lvl}

BestOf(r, lvl) ==
  {s \in Eligible(r, lvl) : \A o \in Eligible(r, lvl) : r.players[s].value >= r.players[o].value}

\* C12: at showdown the pot of a level is (lvl - prev) x the seats with committed >=
\* lvl and goes to non-folded seats with committed >= lvl only: a folded seat
\* receives nothing, a seat receives at most the pots of the levels up to its own
\* committed, the chips paid are the pots of the levels that have an eligible seat;
\* with committed 100/200/200 and seats 2 and 3 tied best, seats 2 and 3 receive
\* 150 + 100 each and seat 1 nothing (scenario S5)
C12_SidePotsByLevel ==
  [][last'.op = "showdown"
       => /\ \A lvl \in ContributionLevels(rt) :
                LevelPot(rt, lvl)
                  = (lvl - LevelBelow(rt, lvl))
                      * Cardinality({s \in SeatsOf(rt) : rt.players[s].committed >= lvl})
          /\ \A s \in SeatsOf(rt) :
                /\ rt.players[s].hasFolded => Received(s) = 0
                /\ Received(s) >= 0
                /\ Received(s) <= CommittedUpTo(rt, rt.players[s].committed)
          /\ last'.res.paid
               = SumOver([lvl \in ContributionLevels(rt) |->
                            IF Eligible(rt, lvl) # {} THEN LevelPot(rt, lvl) ELSE 0],
                         ContributionLevels(rt))
          /\ ((/\ rt.players[1].committed = 100 /\ rt.players[2].committed = 200
                /\ rt.players[3].committed = 200 /\ rt.players[4].committed = 0
                /\ \A s \in 1..3 : ~rt.players[s].hasFolded
                /\ rt.players[2].value = rt.players[3].value
                /\ rt.players[2].value > rt.players[1].value)
                 => Received(1) = 0 /\ Received(2) = 250 /\ Received(3) = 250)]_vars

\* scenario S5 was resolved
C12_S5Resolved ==
  /\ last.op = "showdown"
  /\ last.res.pre.players[1].committed = 100 /\ last.res.pre.players[2].committed = 200
  /\ last.res.pre.players[3].committed = 200 /\ ~last.res.pre.players[1].hasFolded
  /\ dbSeats[1].stack = 0 /\ dbSeats[2].stack = 250 /\ dbSeats[3].stack = 250

\* seats between the dealer and seat s, clockwise, at a table of ShowdownSeatNos
ClockwiseFromDealer(r, s) ==
  (s - r.dealerSeat - 1 + Cardinality(ShowdownSeatNos)) % Cardinality(ShowdownSeatNos)

\* what the pot of level lvl owes seat s: the floor of an equal split among the best
\* eligible hands, plus one chip for the first rem of them clockwise from the dealer
OddChipShare(r, lvl, s) ==
  IF s \notin BestOf(r, lvl) THEN 0
  ELSE (LevelPot(r, lvl) \div Cardinality(BestOf(r, lvl)))
       + (IF Cardinality({o \in BestOf(r, lvl) :
                            ClockwiseFromDealer(r, o) < ClockwiseFromDealer(r, s)})
               < LevelPot(r, lvl) % Cardinality(BestOf(r, lvl))
          THEN 1 ELSE 0)

StreetOpens(r) ==
  /\ r.round \in {"PREFLOP", "FLOP", "TURN", "RIVER"}
  /\ ~r.isDealingBoard /\ ~r.autoRunout
  /\ \A s \in SeatsOf(r) : ~r.actedThisRound[s]

\* C14: in a heads-up hand the dealer posts the small blind and has the first turn
\* preflop, and on every later street the first turn is the dealer's (the small
\* blind's) when both seats can act
C14_HeadsUpDealerFirst ==
  (hasRt /\ Cardinality(SeatsOf(rt)) = 2)
    => /\ (last.op = "start"
             => /\ rt.currentTurnSeat = rt.dealerSeat
                /\ rt.players[rt.dealerSeat].bet
                     = Min(SmallBlind, rt.players[rt.dealerSeat].bet + rt.players[rt.dealerSeat].stack)
                /\ \A s \in SeatsOf(rt) \ {rt.dealerSeat} : rt.currentBet = rt.players[s].bet)
       /\ (StreetOpens(rt) /\ actionables(rt) = SeatsOf(rt)
             => rt.currentTurnSeat = rt.dealerSeat)

\* seats strictly between seat s and seat k going clockwise round the table
ClockwiseGap(s, k) ==
  (k - s - 1 + Cardinality(DOMAIN dbSeats)) % Cardinality(DOMAIN dbSeats)

\* the first seat of S clockwise after seat s (s itself comes last)
ClockwiseNext(S, s) == CHOOSE k \in S : \A j \in S : ClockwiseGap(s, k) <= ClockwiseGap(s, j)

\* C15: with three or more seats in the hand, the small blind is posted by the first
\* occupied seat clockwise after the dealer, the big blind by the next one, the first
\* turn preflop is the next occupied seat after the big blind, and a postflop street
\* opens with the turn on the first seat able to act clockwise after the dealer
\* (scenario S2: seats 1, 2, 3 and dealer 1 give SB 2, BB 3, first turn seat 1
\* preflop and seat 2 on the flop)
C15_RingBlindsAndFirstTurn ==
  (hasRt /\ Cardinality(SeatsOf(rt)) >= 3)
    => /\ (last.op = "start"
             => LET sb == ClockwiseNext(SeatsOf(rt), rt.dealerSeat)
                    bb == ClockwiseNext(SeatsOf(rt), sb)
                IN /\ rt.players[sb].bet = SmallBlind
                   /\ rt.players[bb].bet = BigBlind
                   /\ \A s \in SeatsOf(rt) \ {sb, bb} : rt.players[s].bet = 0
                   /\ rt.currentTurnSeat = ClockwiseNext(SeatsOf(rt), bb)
                   /\ (SeatsOf(rt) = {1, 2, 3} /\ rt.dealerSeat = 1
                         => sb = 2 /\ bb = 3 /\ rt.currentTurnSeat = 1))
       /\ (StreetOpens(rt) /\ rt.round # "PREFLOP" /\ actionables(rt) # {}
             => /\ rt.currentTurnSeat = ClockwiseNext(actionables(rt), rt.dealerSeat)
                /\ (SeatsOf(rt) = {1, 2, 3} /\ rt.dealerSeat = 1 /\ 2 \in actionables(rt)
                      => rt.currentTurnSeat = 2))

\* the flop opened with the dealer on the highest seat able to act: the first turn
\* wrapped to a lower seat number
C15_FlopTurnWrapped ==
  /\ hasRt /\ Cardinality(SeatsOf(rt)) >= 3
  /\ StreetOpens(rt) /\ rt.round = "FLOP"
  /\ \A s \in actionables(rt) : s <= rt.dealerSeat
  /\ rt.currentTurnSeat < rt.dealerSeat

\* C16: while a hand awaits the decision of a seat able to act (round not SHOWDOWN,
\* board not being dealt, no auto-runout), turnEndsAt holds a deadline; the runtime
\* written by startHandIfReady has turnEndsAt = start time + TURN_TIME_MS
C16_TurnHasDeadline ==
  /\ (hasRt /\ rt.round # "SHOWDOWN" /\ ~rt.isDealingBoard /\ ~rt.autoRunout
        /\ rt.currentTurnSeat \in actionables(rt)
         => rt.turnEndsAt # Null)
  /\ (hasRt /\ last.op = "start" => rt.turnEndsAt = Now + TURN_TIME_MS)

\* C17: while a hand awaits a decision (round not SHOWDOWN, board not being dealt,
\* no auto-runout), currentTurnSeat is a seat of the hand that has not folded, is
\* not all-in and has chips, from the first turn of the hand onward
C17_TurnSeatCanAct ==
  (hasRt /\ rt.round # "SHOWDOWN" /\ ~rt.isDealingBoard /\ ~rt.autoRunout)
    => /\ rt.currentTurnSeat \in SeatsOf(rt)
       /\ ~rt.players[rt.currentTurnSeat].hasFolded
       /\ ~rt.players[rt.currentTurnSeat].isAllIn
       /\ rt.players[rt.currentTurnSeat].stack > 0

\* the turn timers of the table that are pending
PendingTimers == (IF turnTimer.armed THEN 1 ELSE 0) + Len(sched.orphans)

\* C18: at most one turn timer is pending per table at any time, and a timer that
\* forces an action leaves a runtime with another (handId, currentTurnSeat,
\* turnEndsAt), so that no second action is forced for the same turn, also when
\* scheduleTurnTimer calls of several events overlap
C18_OneTimerOneAction ==
  /\ [](PendingTimers <= 1)
  /\ [][last'.op = "timer" /\ last'.action # "" /\ last'.res.err = "OK"
         => ~(/\ hasRt' /\ rt'.handId = rt.handId
              /\ rt'.currentTurnSeat = rt.currentTurnSeat
              /\ rt'.turnEndsAt = rt.turnEndsAt)]_vars

\* the timers whose callback ran in the step: the entry of turnTimers, or the
\* pending timer the step removed
FiredTimers ==
  IF sched' = sched THEN {turnTimer}
  ELSE {sched.orphans[i] : i \in {j \in DOMAIN sched.orphans : sched' = dropOrphan(j)}}

\* C19: when a turn timer fires and the runtime's (handId, currentTurnSeat,
\* turnEndsAt) is not what the timer was armed for, nothing happens: no action is
\* applied, no strike counted, no kick marked, no field of the runtime changed
C19_SupersededTimerIsNoOp ==
  [][last'.op = "timer"
       => \A t \in FiredTimers :
            (~hasRt \/ t.handId # rt.handId \/ t.seat # rt.currentTurnSeat
               \/ t.endsAt # rt.turnEndsAt)
              => /\ last'.action = ""
                 /\ UNCHANGED <<hasRt, rt, dbSeats, wallet, timeoutStrikes, pendingAwayKick>>]_vars

\* the timer of the seat on turn expires: the runtime awaits that seat's decision
\* with the deadline the timer was armed for
TurnTimerExpires ==
  /\ turnTimer.armed /\ hasRt /\ ~rt.isDealingBoard /\ ~rt.autoRunout
  /\ rt.turnEndsAt = turnTimer.endsAt
  /\ rt.currentTurnSeat \in SeatsOf(rt)
  /\ ~rt.players[rt.currentTurnSeat].hasFolded
  /\ ~rt.players[rt.currentTurnSeat].isSittingOut

\* C20: when the turn timer of a seat that is not sitting out expires, CHECK is
\* applied if the seat has nothing to call and FOLD otherwise, as a timeout; the
\* user's strike counter grows by exactly 1 (a user removed in the same step has
\* it reset); and the turn passes on: another seat, another street or the hand ends
C20_TimeoutForcesDefault ==
  [][TurnTimerExpires /\ last'.op = "timer" /\ sched' = sched
       => LET s == rt.currentTurnSeat
              u == rt.players[rt.currentTurnSeat].userId
          IN /\ last'.user = u /\ last'.timeout /\ last'.res.err = "OK"
             /\ last'.action = IF rt.currentBet - rt.players[s].bet <= 0 THEN "CHECK" ELSE "FOLD"
             /\ (timeoutStrikes'[u] = timeoutStrikes[u] + 1
                  \/ (timeoutStrikes'[u] = 0 /\ u \in pendingAwayKick \cup
                        (IF timeoutStrikes[u] + 1 >= AWAY_TIMEOUTS_IN_ROW THEN {u} ELSE {})))
             /\ (~hasRt' \/ rt'.round # rt.round \/ rt'.currentTurnSeat # s)]_vars

\* C21: an action applied with timeout=true leaves the seat's timeoutsInRow exactly
\* 1 higher than before, and an action applied without timeout leaves it 0
C21_TimeoutsInRowCounts ==
  [][(/\ last'.op \in {"action", "timer"} /\ last'.user # 0 /\ last'.action # ""
      /\ last'.res.err = "OK" /\ hasRt /\ seatOfUser(rt, last'.user) # Null)
       => LET s == seatOfUser(rt, last'.user)
          IN last'.res.pre.players[s].timeoutsInRow
               = IF last'.timeout THEN rt.players[s].timeoutsInRow + 1 ELSE 0]_vars

\* the seat of user u is emptied by this step
SeatEmptied(u) == dbSeats[u].userId = u /\ dbSeats'[u].userId = Null

\* C22: a user is marked for removal for timeouts (or removed in the same step) only
\* by the timer expiry of their own turn that brings their strikes to
\* AWAY_TIMEOUTS_IN_ROW; the strikes grow only by 1, only by such an expiry, and
\* every manual action of the user sets them to 0
C22_KickAfterStrikesInRow ==
  [][\A u \in Users :
       /\ (last'.op = "action" /\ last'.user = u => timeoutStrikes'[u] = 0)
       /\ (timeoutStrikes'[u] > timeoutStrikes[u]
             => /\ last'.op \in {"timer", "timer_read"} /\ last'.user = u /\ last'.timeout
                /\ last'.res.err = "OK"
                /\ timeoutStrikes'[u] = timeoutStrikes[u] + 1)
       /\ (last'.op \in {"timer", "timer_read"} /\ u \notin pendingAwayKick
              /\ (u \in pendingAwayKick' \/ SeatEmptied(u))
             => /\ last'.user = u /\ last'.timeout
                /\ timeoutStrikes[u] + 1 >= AWAY_TIMEOUTS_IN_ROW)
       /\ (u \in pendingAwayKick' \ pendingAwayKick
             => last'.op \in {"timer", "timer_read", "leave"})]_vars

\* the handlers that run flushPendingKicks
FlushOps == {"action", "timer", "reveal", "runout"}

\* C23: flushPendingKicks cashes a user out and empties the seat only in a step in
\* which the street advanced or the hand ended, never while the betting street
\* goes on; when the timeout that brings a user to AWAY_TIMEOUTS_IN_ROW settles the
\* street, the user is cashed out of the whole seat stack in that step, after the
\* advance (S4)
C23_KicksFlushedAtSafePoints ==
  [][\A u \in Users :
       /\ (last'.op \in FlushOps /\ SeatEmptied(u)
             => hasRt /\ (~hasRt' \/ rt'.round # rt.round))
       /\ ((/\ last'.op = "timer" /\ last'.user = u /\ last'.timeout /\ last'.res.err = "OK"
            /\ timeoutStrikes[u] + 1 >= AWAY_TIMEOUTS_IN_ROW
            /\ hasRt' /\ rt'.round # rt.round /\ dbSeats[u].userId = u)
             => /\ dbSeats'[u] = [userId |-> Null, stack |-> 0, state |-> "EMPTY"]
                /\ wallet'[u] = wallet[u] + last'.res.pre.players[u].stack
                /\ u \notin pendingAwayKick' /\ timeoutStrikes'[u] = 0)]_vars

\* S4: the second timeout in a row of user 1 settled the street; user 1 is cashed
\* out and the hand goes on in the next street
C23_CashedOutAfterAdvance ==
  /\ last.op = "timer" /\ last.user = 1 /\ last.timeout /\ last.res.advanced
  /\ hasRt /\ dbSeats[1].userId = Null /\ wallet[1] > 0 /\ timeouts = AWAY_TIMEOUTS_IN_ROW

\* C24: while user u is a participant of the running hand that has not folded, a
\* table:leave, a disconnect or a join of another table by u leaves u's seat and
\* wallet as they are (the removal waits for the next safe point), and table:leave
\* answers LEAVE_PENDING
C24_NoRemovalMidHand ==
  [][\A u \in Users :
       (isActiveInHand(hasRt, rt, u) /\ last'.user = u
          /\ last'.op \in {"leave", "disconnect", "join_other"})
         => /\ dbSeats'[u] = dbSeats[u] /\ wallet'[u] = wallet[u]
            /\ (last'.op = "leave" => last'.res.err = "LEAVE_PENDING")]_vars

\* C25: of the startHandIfReady invocations that race for a table, at most one
\* creates a hand; once a runtime is written, no invocation changes the runtime,
\* the stacks or the dealer pointer, and an invocation that returns started=false
\* has changed nothing
C25_OneStartPerRace ==
  /\ [](handsStarted <= 1)
  /\ [][(hasRt \/ last'.action = "not_started")
          => UNCHANGED <<hasRt, rt, dbSeats, dealerPtr>>]_vars

\* the part of a callback's outcome that the engine keeps or emits
Outcome(x) == [hasRt |-> x.w.hasRt, rt |-> x.w.rt, action |-> x.action, user |-> x.user,
              timeout |-> x.timeout, err |-> x.res.err]

\* the world a step leaves behind, with no callback pending
WorldAfter ==
  [hasRt |-> hasRt', rt |-> rt', db |-> dbSeats', wallet |-> wallet',
   strikes |-> timeoutStrikes', kicks |-> pendingAwayKick', timer |-> NoTimer,
   revealing |-> revealing', tail |-> tail']

\* what the callback armed for the stored deadline does when it fires on world w
FireOutcome(w, value) == Outcome(timerStep(w, w.rt.turnEndsAt, value))

\* C26: a restart during a player's turn with a deadline (no board being dealt, no
\* auto-runout) leaves a timer armed for the stored turnEndsAt, which fires once
\* max(0, turnEndsAt - now) has passed, and its firing forces the same action on
\* the same seat and writes the same runtime (deadlines counted from the instant
\* of the fire) as the firing without the restart
C26_RecoveryFiresAlike ==
  [][(/\ last'.op = "restart"
      /\ hasRt /\ ~rt.isDealingBoard /\ ~rt.autoRunout /\ rt.turnEndsAt # Null)
       => /\ turnTimer'.armed
          /\ turnTimer'.endsAt = rt.turnEndsAt - last'.amount
          /\ turnTimer'.endsAt = rt'.turnEndsAt
          /\ \A value \in Values :
                      FireOutcome(WorldAfter, value)
                        = FireOutcome([World EXCEPT !.timer = NoTimer], value)]_vars

\* S6: the process came back 500 ms after the deadline; the recovered timer is due
C26_PastDeadlineRecovered ==
  /\ last.op = "restart" /\ last.amount = 500
  /\ hasRt /\ rt.turnEndsAt = 0 - 500
  /\ turnTimer.armed /\ turnTimer.endsAt = rt.turnEndsAt /\ Now >= turnTimer.endsAt

\* C27: a running hand, restarted at any point, is eventually completed by the
\* engine's own handlers and timers
C27_HandCompletesAfterRestart == (hasRt /\ restarts > 0) ~> ~hasRt
Range(f) == {f[i] : i \in DOMAIN f}

\* the cards a snapshot shows
snapshotCards(st) == Range(st.game.board)

allHoleCards(r) == UNION {holeCards(r, s) : s \in SeatsOf(r)}

deckCards(r) == r.deck.lo .. r.deck.hi

\* C28: the public snapshot has no deck, pendingBoard or hole-card field, and no
\* card it shows is in the deck, in pendingBoard or among the hole cards of the hand
C28_SnapshotHidesCards ==
  /\ DOMAIN tableState = {"seats", "game"}
  /\ DOMAIN tableState.game \cap {"deck", "pendingBoard", "players", "cards"} = {}
  /\ \A s \in DOMAIN tableState.seats :
       DOMAIN tableState.seats[s] \cap {"cards", "hole", "deck", "pendingBoard"} = {}
  /\ hasRt => snapshotCards(tableState)
                 \cap (deckCards(rt) \cup Range(rt.pendingBoard) \cup allHoleCards(rt)) = {}

\* a snapshot sent between two cards of a flop: one card shown, two pending
C28_SnapshotMidReveal ==
  /\ last.op = "reveal" /\ hasRt
  /\ Len(rt.pendingBoard) = 2 /\ Len(rt.board) = 1 /\ DeckLen(rt.deck) > 0
  /\ tableState.game.board = rt.board

showdownEmitted == \E e \in tableRoomEvents : e.type = "SHOWDOWN_REVEAL"

\* the hand the last handler's events are about
handOfEvents == IF showdownEmitted THEN resolvedRuntime ELSE rt

notFoldedCards(r) == UNION {holeCards(r, s) : s \in {t \in SeatsOf(r) : ~r.players[t].hasFolded}}

ownCardsOnly ==
  \A u \in Users : \A e \in userRoomEvents(u) :
    e.cards = holeCards(rt, seatOfUser(rt, u))

\* C29: hole cards go only to their owner's user room; no event sent to the table
\* room carries a hole card
C29_NoHoleCardsInTableRoom ==
  /\ ownCardsOnly
  /\ \A e \in tableRoomEvents : e.cards \cap allHoleCards(handOfEvents) = {}

\* C29 amended: hole cards go only to their owner's user room, except that
\* SHOWDOWN_REVEAL shows the table room the hole cards of the seats that have not
\* folded; no other table-room event carries a hole card
C29_HoleCardsOnlyAtShowdown ==
  /\ ownCardsOnly
  /\ \A e \in tableRoomEvents :
       /\ e.type # "SHOWDOWN_REVEAL" => e.cards \cap allHoleCards(handOfEvents) = {}
       /\ e.type = "SHOWDOWN_REVEAL" => e.cards = notFoldedCards(handOfEvents)

\* a showdown of two seats in a hand of three: the third seat folded
C29_ShowdownAfterFold ==
  /\ showdownEmitted
  /\ Cardinality(SeatsOf(resolvedRuntime)) = 3
  /\ \E s \in SeatsOf(resolvedRuntime) : resolvedRuntime.players[s].hasFolded
  /\ \E e \in tableRoomEvents : e.type = "SHOWDOWN_REVEAL" /\ Cardinality(e.cards) = 4

\* C30: an action of a player, manual or forced by the timer, is accepted in a hand
\* only after table:private_cards of that hand was emitted to the player
C30_CardsBeforeAction ==
  [][(last'.op \in {"action", "timer"} /\ last'.res.err = "OK" /\ last'.action # "")
       => last'.user \notin starting.owed]_vars

\* the last handler ended a hand
handEnded == last.res.ended \in {"fold", "showdown"} \/ last.auto.ended = "showdown"

\* C31: the handler that ends a hand, by fold or by showdown, on a manual action,
\* a timer-forced action or an auto-runout, broadcasts HAND_ENDED, and
\* SHOWDOWN_REVEAL with it when the hand ended by showdown
C31_HandEndedBroadcast ==
  handEnded =>
    /\ \E e \in tableRoomEvents : e.type = "HAND_ENDED"
    /\ (last.res.ended = "showdown" \/ last.auto.ended = "showdown")
         => \E e \in tableRoomEvents : e.type = "SHOWDOWN_REVEAL"

\* the seat that user u holds at the table
HoldsSeat(u) == \E s \in DOMAIN dbSeats : dbSeats[s].userId = u

SeatHeld(u) == CHOOSE s \in DOMAIN dbSeats : dbSeats[s].userId = u

\* wallet funds and the cap of 100 big blinds permit a rebuy of amount by user u
RebuyPermitted(u, amount) ==
  /\ WalletStart + wallet[u] >= amount
  /\ dbSeats[SeatHeld(u)].stack + amount <= 100 * BigBlind

\* C32: a rebuy by a seated user is accepted when no hand runs or the user has
\* folded (funds and cap permitting), and refused with HAND_IN_PROGRESS while
\* the user is a participant of the running hand that has not folded
C32_RebuyBetweenHandsOrFolded ==
  [][(last'.op = "rebuy" /\ HoldsSeat(last'.user))
       => /\ (~isActiveInHand(hasRt, rt, last'.user) /\ RebuyPermitted(last'.user, last'.amount))
              => (/\ last'.res.err = "OK"
                  /\ dbSeats'[SeatHeld(last'.user)].stack
                       = dbSeats[SeatHeld(last'.user)].stack + last'.amount)
          /\ isActiveInHand(hasRt, rt, last'.user)
              => (last'.res.err = "HAND_IN_PROGRESS" /\ dbSeats' = dbSeats)]_vars

\* the chips on the table's seats and in the wallets
ChipsHeld == SumOver([s \in DOMAIN dbSeats |-> dbSeats[s].stack], DOMAIN dbSeats)
               + SumOver(wallet, Users)

\* C33: between hands the seats dealt in hold together what they held before the
\* blinds of the hand were posted (9 + 5 on this table, counting with the seats
\* what a rebuy or a cash-out moved from or to a wallet), however the hand ended
C33_HandConservesChips == ~hasRt => ChipsHeld = 9 + 5

\* C34: when the players stop sending actions the hand still ends: in every
\* behaviour the runtime is absent again and again, unless table:action requests
\* keep coming or the clock of the behaviour has run out (timeouts = MaxTimeouts)
C34_HandEndsUnattended ==
  \/ []<>~hasRt
  \/ []<><<last'.op = "action">>_vars
  \/ []<>(timeouts = MaxTimeouts)

\* the seats of the running hand whose relational seat has been emptied
emptiedSeats == IF hasRt THEN {s \in SeatsOf(rt) : dbSeats[s].userId = Null} ELSE {}

\* C35: a seat cashed out and emptied while its hand runs is out of the hand: no
\* step gives it the turn, no fold win names it the winner, and its relational
\* seat keeps stack 0 (no persist writes chips back, no pot is paid to it)
C35_EmptiedSeatOutOfHand ==
  [][\A s \in emptiedSeats :
       /\ (hasRt' /\ rt'.currentTurnSeat = s) => rt.currentTurnSeat = s
       /\ last'.res.winnerSeat # s
       /\ dbSeats'[s].userId = Null => dbSeats'[s].stack = 0]_vars

\* C36: while autoRunout is set no table:action of any seat is accepted, and a
\* step that changes round, board or pot is a step of the reveal or of the
\* auto-runout loop
C36_NoActionDuringRunout ==
  [][(hasRt /\ rt.autoRunout) =>
       /\ last'.op = "action" => last'.res.err # "OK"
       /\ (~hasRt' \/ <<rt'.round, rt'.board, rt'.pot>> # <<rt.round, rt.board, rt.pot>>)
            => last'.op \in {"reveal", "runout"}]_vars

\* the seats user u holds
seatsOfUser(db, u) == {s \in DOMAIN db : db[s].userId = u}

\* C37: a table:sit by a user who already holds a seat of the table is rejected,
\* debits nothing and seats nobody, and no user ever holds two seats
C37_OneSeatPerUser ==
  [][/\ \A u \in Users : Cardinality(seatsOfUser(dbSeats', u)) <= 1
     /\ (last'.op = "sit" /\ HoldsSeat(last'.user))
          => (last'.res.err # "OK" /\ wallet' = wallet /\ dbSeats' = dbSeats)]_vars

\* C38: in a running hand the board holds 0, 3, 4 or 5 cards whenever
\* isDealingBoard is false, and cards are pending only while isDealingBoard is
\* true, whatever sit_out, sit_in and table:action events ran during a reveal
C38_BoardShape ==
  hasRt =>
    /\ ~rt.isDealingBoard => Len(rt.board) \in {0, 3, 4, 5}
    /\ rt.pendingBoard # <<>> => rt.isDealingBoard

\* the board and the pending cards of the hand are the first cards left in the
\* deck after the hole cards, in the order of the deck
boardInDeckOrder(r) ==
  /\ r.board \o r.pendingBoard
       = [i \in 1..(Len(r.board) + Len(r.pendingBoard)) |-> 2 * Cardinality(SeatsOf(r)) + i]
  /\ r.deck.lo = 2 * Cardinality(SeatsOf(r)) + Len(r.board) + Len(r.pendingBoard) + 1

\* C39: at most one reveal sequence runs at any time, a revealPendingBoard call
\* dropped because a reveal is in progress leaves the runtime as it was, and no
\* card is revealed twice or skipped
C39_OneRevealAtATime ==
  [][/\ ~(tail'.pc # "idle" /\ sched'.seq.pc # "idle")
     /\ (last'.op = "tail" /\ last'.action = "dropped") => (hasRt' = hasRt /\ rt' = rt)
     /\ hasRt' => boardInDeckOrder(rt')]_vars

\* C40: once autoRunout is set the loop of runAutoRunout brings the hand to its
\* end: the runtime is deleted in the end (by the showdown on a board of 5 cards,
\* within the guard bound of 10 iterations)
C40_RunoutEndsHand == (hasRt /\ rt.autoRunout) ~> ~hasRt

====
